---- MODULE Spec2Model ----
(***************************************************************************)
(* Model of the Azure DevOps integration service layer: the configuration  *)
(* cache (AzureDevOpsCacheUtil.getOrCompute), the dual-auth fallback of    *)
(* AzureDevOpsService, terminal-state stripping, the JSON-Patch builder    *)
(* and the response decoder.                                               *)
(***************************************************************************)
EXTENDS Integers, Sequences, FiniteSets, TLC

VARIABLES
    now,              \* wall clock, in seconds
    source,           \* declarative configuration source: config name -> record
    backendAvailable, \* is the platform cache provisioned in this environment
    platformCache,    \* platform cache partition: key -> entry
    memoryCache,      \* in-memory fallback Map: key -> entry
    lastCompute,      \* per key, the last supplier invocation made so far
    lastGet,          \* the last getOrCompute call and what it returned
    pc,               \* position of the service call: idle, flight, done
    fields,           \* FieldSet of the request being prepared
    call,             \* the verb call in progress
    inFlight,         \* authentication strategies with a request in flight
    sent,             \* Transport invocations made by the call, in order
    outcomes,         \* outcomes of the completed attempts, in order
    result,           \* what the call returned or threw
    callers,          \* concurrent getOrCompute callers of the in-memory Map
    locks,            \* per cache key, the caller holding its compute lock
    creator,          \* the AzureDevOpsWorkItemCreator modal component
    modal,            \* the UniversalModal component
    wlist,            \* the AzureWorkItemList component
    editor,           \* the AzureDevOpsWorkItemEditor modal component
    manager           \* the AzureDevOpsWorkItemManager component

cacheVars == <<now, source, backendAvailable, platformCache, memoryCache,
               lastCompute, lastGet>>

serviceVars == <<pc, fields, call, inFlight, sent, outcomes, result>>

concVars == <<callers, locks>>

uiVars == <<creator, modal, wlist, editor, manager>>

vars == <<now, source, backendAvailable, platformCache, memoryCache,
          lastCompute, lastGet, pc, fields, call, inFlight, sent, outcomes,
          result, callers, locks, creator, modal, wlist, editor, manager>>

----------------------------------------------------------------------------
(* Bounds *)

TickStep == 100
MaxTime == 400
TTLs == {100, 300}
MaxFields == 3

----------------------------------------------------------------------------
(* Connection configurations (Azure_DevOps_Connection__mdt) *)

ConfigNames == {"both", "ncOnly", "patOnly", "noAuth"}

Config(nc, pat) == [hasNamedCredential |-> nc, hasPersonalAccessToken |-> pat]

InitialSource ==
    [n \in ConfigNames |->
        CASE n = "both" -> Config(TRUE, TRUE)
          [] n = "ncOnly" -> Config(TRUE, FALSE)
          [] n = "patOnly" -> Config(FALSE, TRUE)
          [] OTHER -> Config(FALSE, FALSE)]

----------------------------------------------------------------------------
(* AzureDevOpsCacheUtil *)

CONFIG_CACHE_PREFIX == "AzureConfig."

CacheKey(configName) == CONFIG_CACHE_PREFIX \o configName

CacheKeys == {CacheKey(n) : n \in ConfigNames}

\* the keys the cache is exercised with on its own
CallKeys == {CacheKey("both"), CacheKey("ncOnly")}

NameOfKey(k) == CHOOSE n \in ConfigNames : CacheKey(n) = k

NoEntry == [present |-> FALSE, value |-> Config(FALSE, FALSE), expiry |-> 0]

Entry(v, e) == [present |-> TRUE, value |-> v, expiry |-> e]

\* ConfigSupplier.get(): reads the record from the declarative source
ConfigSupplier(src, k) == src[NameOfKey(k)]

\* a cache that goes to the platform partition whether it exists or not
StoreKind_platformOnly(avail) == "platform"

\* which store serves the call: the platform partition when it is
\* provisioned, the in-memory Map otherwise
StoreKind(avail) == IF avail THEN "platform" ELSE "memory"

\* the store getOrCompute works on: platform cache, or the in-memory Map
ActiveStore(avail, platform, memory) ==
    IF StoreKind(avail) = "platform" THEN platform ELSE memory

\* a lookup that forgets the expiry timestamp of the entry
IsHit_noExpiry(store, k, t) == store[k].present

\* a hit: the entry exists and its expiry timestamp has not been reached
IsHit(store, k, t) == store[k].present /\ t < store[k].expiry

\* getOrCompute(key, ttlSeconds, supplier): the value returned, whether the
\* supplier was invoked, and the store after the call
GetOrCompute(store, k, ttl, supplied, t) ==
    IF IsHit(store, k, t)
    THEN [value |-> store[k].value, invoked |-> FALSE, store |-> store]
    ELSE [value |-> supplied, invoked |-> TRUE,
          store |-> [store EXCEPT ![k] = Entry(supplied, t + ttl)]]

----------------------------------------------------------------------------
(* Strings whose letter case matters are sequences of character codes *)

toLowerCase(s) ==
    [i \in 1..Len(s) |-> IF s[i] \in 65..90 THEN s[i] + 32 ELSE s[i]]

S_Done == <<68, 111, 110, 101>>
S_done == <<100, 111, 110, 101>>
S_CLOSED == <<67, 76, 79, 83, 69, 68>>
S_Closed == <<67, 108, 111, 115, 101, 100>>
S_Resolved == <<82, 101, 115, 111, 108, 118, 101, 100>>
S_ToDo == <<84, 111, 32, 68, 111>>
S_Fix == <<70, 105, 120>>

StrVal(s) == [type |-> "string", chars |-> s, num |-> 0]
NumVal(n) == [type |-> "number", chars |-> <<>>, num |-> n]

----------------------------------------------------------------------------
(* FieldSet: Map<String, Object>, kept as its entries in insertion order *)

F_Title == "System.Title"
F_State == "System.State"
F_Priority == "Microsoft.VSTS.Common.Priority"

containsKey(m, k) == \E i \in 1..Len(m) : m[i].key = k

get(m, k) == m[CHOOSE i \in 1..Len(m) : m[i].key = k].value

\* Map.put: replaces the value of an existing key in place, else appends
put(m, k, v) ==
    IF containsKey(m, k)
    THEN [i \in 1..Len(m) |-> IF m[i].key = k THEN [key |-> k, value |-> v] ELSE m[i]]
    ELSE Append(m, [key |-> k, value |-> v])

remove(m, k) ==
    LET Keep(e) == e.key # k IN SelectSeq(m, Keep)

keySet(m) == {m[i].key : i \in 1..Len(m)}

----------------------------------------------------------------------------
(* Terminal-state stripping (AzureDevOpsService.removeTerminalState) *)

terminalStates == {S_Done, S_Closed, S_Resolved}

\* a comparison that only matches the exact spelling of the set's members
isTerminal_exactCase(v) == v.type = "string" /\ v.chars \in terminalStates

\* case-insensitive comparison against the terminal state names
isTerminal(v) ==
    /\ v.type = "string"
    /\ \E t \in terminalStates : toLowerCase(t) = toLowerCase(v.chars)

removeTerminalState(fs) ==
    IF containsKey(fs, F_State) /\ isTerminal(get(fs, F_State))
    THEN remove(fs, F_State)
    ELSE fs

----------------------------------------------------------------------------
(* JSON-Patch builder *)

PatchOp(k, v) == [op |-> "add", path |-> "/fields/" \o k, value |-> v]

\* a builder that puts each new operation in front of the earlier ones
RECURSIVE buildPatch_reversed(_)
buildPatch_reversed(fs) ==
    IF fs = <<>> THEN <<>>
    ELSE buildPatch_reversed(Tail(fs)) \o <<PatchOp(Head(fs).key, Head(fs).value)>>

RECURSIVE buildPatch(_)
buildPatch(fs) ==
    IF fs = <<>> THEN <<>>
    ELSE <<PatchOp(Head(fs).key, Head(fs).value)>> \o buildPatch(Tail(fs))

----------------------------------------------------------------------------
(* Response decoder: the body is the token sequence of its JSON text *)

Punctuation == {"{", "}", ":", ","}

JsonThrew == [ok |-> FALSE, members |-> <<>>]

\* members of an object after the opening brace: key : value (, key : value)* }
RECURSIVE ParseMembers(_, _)
ParseMembers(toks, acc) ==
    IF \/ Len(toks) < 4
       \/ toks[1] \in Punctuation
       \/ toks[2] # ":"
       \/ toks[3] \in Punctuation
    THEN JsonThrew
    ELSE LET acc2 == put(acc, toks[1], toks[3])
             rest == SubSeq(toks, 4, Len(toks))
         IN IF rest = <<"}">> THEN [ok |-> TRUE, members |-> acc2]
            ELSE IF rest[1] = "," THEN ParseMembers(Tail(rest), acc2)
            ELSE JsonThrew

\* JSON.deserializeUntyped: ok = FALSE stands for the JSONException it throws
deserializeUntyped(toks) ==
    IF toks = <<"{", "}">> THEN [ok |-> TRUE, members |-> <<>>]
    ELSE IF Len(toks) >= 1 /\ toks[1] = "{" THEN ParseMembers(Tail(toks), <<>>)
    ELSE JsonThrew

Is2xx(status) == status >= 200 /\ status < 300

AzureResult(ok, id, msg, status) ==
    [kind |-> "result", success |-> ok, workItemId |-> id, message |-> msg,
     statusCode |-> status, exception |-> "", raisedBy |-> ""]

Thrown(type, strategy) ==
    [kind |-> "error", success |-> FALSE, workItemId |-> "", message |-> "",
     statusCode |-> 0, exception |-> type, raisedBy |-> strategy]

NoResult ==
    [kind |-> "none", success |-> FALSE, workItemId |-> "", message |-> "",
     statusCode |-> 0, exception |-> "", raisedBy |-> ""]

\* a decoder that lets the JSONException of a malformed body escape
parseResult_noCatch(resp) ==
    LET parsed == deserializeUntyped(resp.body)
    IN IF ~parsed.ok THEN Thrown("JSONException", "")
       ELSE IF Is2xx(resp.status) /\ containsKey(parsed.members, "id")
       THEN AzureResult(TRUE, get(parsed.members, "id"), "ok", resp.status)
       ELSE AzureResult(FALSE, "", "status", resp.status)

parseResult(resp) ==
    LET parsed == deserializeUntyped(resp.body)
    IN IF ~parsed.ok
       THEN AzureResult(FALSE, "", "parseError", resp.status)
       ELSE IF ~Is2xx(resp.status)
       THEN AzureResult(FALSE, "",
                IF containsKey(parsed.members, "message") THEN "remote" ELSE "status",
                resp.status)
       ELSE IF containsKey(parsed.members, "id")
       THEN AzureResult(TRUE, get(parsed.members, "id"), "ok", resp.status)
       ELSE AzureResult(FALSE, "", "status", resp.status)

\* response bodies the remote endpoint is made to answer with
B_Created == <<"{", "id", ":", "123", ",", "url", ":", "u", "}">>
B_IdLast == <<"{", "url", ":", "u", ",", "id", ":", "7", "}">>
B_ErrorPayload == <<"{", "message", ":", "TF401", "}">>
B_EmptyObject == <<"{", "}">>
B_Truncated == <<"{", "id", ":", "123">>
B_NoValue == <<"{", "id", ":", "}">>
B_Html == <<"<html>">>
B_Empty == <<>>

WellFormedWithId == {B_Created, B_IdLast}
WellFormedNoId == {B_ErrorPayload, B_EmptyObject}
MalformedBodies == {B_Truncated, B_NoValue, B_Html, B_Empty}
Bodies == WellFormedWithId \cup WellFormedNoId \cup MalformedBodies

Statuses == {200, 300, 404}

Responses == [status : Statuses, body : Bodies]

----------------------------------------------------------------------------
(* Actions of the cache *)

NoCompute == [present |-> FALSE, at |-> 0, ttl |-> 0, value |-> Config(FALSE, FALSE)]

Computed(t, ttl, v) == [present |-> TRUE, at |-> t, ttl |-> ttl, value |-> v]

NoGet == [key |-> "", ttl |-> 0, at |-> 0, invoked |-> FALSE,
          value |-> Config(FALSE, FALSE), called |-> FALSE, threw |-> FALSE]

\* reaching for a platform partition that is not provisioned raises a cache
\* exception; nothing is looked up, computed or stored then
CallGetOrCompute(k, ttl) ==
    LET kind == StoreKind(backendAvailable)
        store == ActiveStore(backendAvailable, platformCache, memoryCache)
        r == GetOrCompute(store, k, ttl, ConfigSupplier(source, k), now)
    IN IF kind = "platform" /\ ~backendAvailable
       THEN /\ lastGet' = [key |-> k, ttl |-> ttl, at |-> now, invoked |-> FALSE,
                           value |-> Config(FALSE, FALSE), called |-> TRUE,
                           threw |-> TRUE]
            /\ UNCHANGED <<platformCache, memoryCache, lastCompute>>
       ELSE /\ platformCache' = IF kind = "platform" THEN r.store ELSE platformCache
            /\ memoryCache' = IF kind = "platform" THEN memoryCache ELSE r.store
            /\ lastCompute' = IF r.invoked
                              THEN [lastCompute EXCEPT ![k] = Computed(now, ttl, r.value)]
                              ELSE lastCompute
            /\ lastGet' = [key |-> k, ttl |-> ttl, at |-> now, invoked |-> r.invoked,
                           value |-> r.value, called |-> TRUE, threw |-> FALSE]

GetOrComputeCall ==
    \E k \in CallKeys, ttl \in TTLs :
        /\ CallGetOrCompute(k, ttl)
        /\ UNCHANGED <<now, source, backendAvailable>>
        /\ UNCHANGED serviceVars
        /\ UNCHANGED <<concVars, uiVars>>

Tick ==
    /\ now + TickStep <= MaxTime
    /\ now' = now + TickStep
    /\ UNCHANGED <<source, backendAvailable, platformCache, memoryCache,
                   lastCompute, lastGet>>
    /\ UNCHANGED serviceVars
    /\ UNCHANGED <<concVars, uiVars>>

\* a metadata deployment changes a connection record in the declarative source
Redeploy ==
    \E n \in {"both"}, c \in {Config(TRUE, TRUE), Config(TRUE, FALSE)} :
        /\ source[n] # c
        /\ source' = [source EXCEPT ![n] = c]
        /\ UNCHANGED <<now, backendAvailable, platformCache, memoryCache,
                       lastCompute, lastGet>>
        /\ UNCHANGED serviceVars
        /\ UNCHANGED <<concVars, uiVars>>

CacheInit ==
    /\ now = 0
    /\ source = InitialSource
    /\ backendAvailable \in BOOLEAN
    /\ platformCache = [k \in CacheKeys |-> NoEntry]
    /\ memoryCache = [k \in CacheKeys |-> NoEntry]
    /\ lastCompute = [k \in CacheKeys |-> NoCompute]
    /\ lastGet = NoGet

----------------------------------------------------------------------------
(* AzureDevOpsService: one verb call at a time *)

CONFIG_TTL == 300

NamedCredential == "NamedCredential"
PAT == "PersonalAccessToken"

WriteVerbs == {"createWorkItem", "updateWorkItem", "deleteWorkItem"}
Verbs == WriteVerbs \cup {"getWorkItems"}
PatchVerbs == {"createWorkItem", "updateWorkItem"}

NullVal == [type |-> "null", chars |-> <<>>, num |-> 0]
UndefinedVal == [type |-> "undefined", chars |-> <<>>, num |-> 0]

\* the values JavaScript treats as false in a || b
Falsy(v) ==
    \/ v.type \in {"null", "undefined"}
    \/ v.type = "string" /\ v.chars = <<>>
    \/ v.type = "number" /\ v.num = 0

\* a || b
OrElse(a, b) == IF Falsy(a) THEN b ELSE a

\* String(value): the characters of the text the value converts to
StringOfValue(v) ==
    CASE v.type = "string" -> v.chars
      [] v.type = "number" -> <<48 + v.num>>
      [] v.type = "null" -> <<110, 117, 108, 108>>
      [] v.type = "undefined" -> <<117, 110, 100, 101, 102, 105, 110, 101, 100>>

NoStore == [k \in CacheKeys |-> NoEntry]

NoCall == [verb |-> "", configName |-> "", config |-> Config(FALSE, FALSE),
           fields |-> <<>>, route |-> "", maxRows |-> UndefinedVal,
           maxResults |-> NullVal, storeBefore |-> NoStore]

DefaultMaxResults == 50
ManagerMaxRows == 10
ListMaxRows == 25

\* a wrapper that forwards its argument as it is
fetchWorkItemsMaxResults_noDefault(arg) == arg

\* fetchWorkItems({ ..., maxResults = 50 }): the default of the parameter
\* stands in for undefined only
fetchWorkItemsMaxResults(arg) ==
    IF arg.type = "undefined" THEN NumVal(DefaultMaxResults) ELSE arg

\* loadWorkItems of the manager: this.maxRows || 50
managerMaxResults(maxRows) == OrElse(maxRows, NumVal(DefaultMaxResults))

\* load of AzureWorkItemList: this.maxRows
listMaxResults(maxRows) == maxRows

GetWorkItemsCallers == {"fetchWorkItems", "manager", "list"}

maxResultsPassed(route, v) ==
    CASE route = "fetchWorkItems" -> fetchWorkItemsMaxResults(v)
      [] route = "manager" -> managerMaxResults(v)
      [] route = "list" -> listMaxResults(v)

\* an argument left undefined in JavaScript reaches the Apex method as null
toApex(v) == IF v.type = "undefined" THEN NullVal ELSE v

MaxResultsInputs ==
    {UndefinedVal, NullVal, NumVal(0), NumVal(-1), NumVal(ManagerMaxRows),
     NumVal(ListMaxRows)}

\* only getWorkItems has a page size and is reached by these routes
CallersOf(verb) == IF verb = "getWorkItems" THEN GetWorkItemsCallers ELSE {""}

MaxRowsOf(verb) ==
    IF verb = "getWorkItems" THEN MaxResultsInputs ELSE {UndefinedVal}

\* a service that asks the remote for whatever page size it is given
isPositiveInteger_unchecked(v) == TRUE

\* the page size getWorkItems accepts
isPositiveInteger(v) == v.type = "number" /\ v.num > 0

\* a classification that looks at the decoder's message before the status
classify_decodeFirst(r) ==
    IF r.kind = "error" THEN r.exception
    ELSE IF r.success THEN "None"
    ELSE IF r.message = "parseError" THEN "DecodeError"
    ELSE IF ~Is2xx(r.statusCode) THEN "RemoteRejected"
    ELSE "DecodeError"

\* the error class of an outcome: a thrown error by its type, a failed result
\* by its status
classify(r) ==
    IF r.kind = "error" THEN r.exception
    ELSE IF r.success THEN "None"
    ELSE IF ~Is2xx(r.statusCode) THEN "RemoteRejected"
    ELSE "DecodeError"

Request(strategy, verb, patch) ==
    [strategy |-> strategy, verb |-> verb, patch |-> patch]

\* a pipeline that strips the terminal state for every verb
prepareFields_alwaysStrip(verb, fs) == removeTerminalState(fs)

\* the FieldSet a verb works on: create strips a terminal state, update does not
prepareFields(verb, fs) ==
    IF verb = "createWorkItem" THEN removeTerminalState(fs) ELSE fs

\* a resolver that tries the PAT whenever there is no Named Credential
withoutNamedCredential_defaultPat(config) == {PAT}

\* no Named Credential: the PAT directly, or nothing to authenticate with
withoutNamedCredential(config) ==
    IF config.hasPersonalAccessToken THEN {PAT} ELSE {}

\* a resolver that starts every configured strategy at once
startStrategies_parallel(config) ==
    (IF config.hasNamedCredential THEN {NamedCredential} ELSE {})
        \cup (IF config.hasPersonalAccessToken THEN {PAT} ELSE {})

\* the strategy the first attempt is made with: the Named Credential when
\* the configuration has one (if (config.hasNamedCredential()) { try { ... )
startStrategies(config) ==
    IF config.hasNamedCredential THEN {NamedCredential}
    ELSE withoutNamedCredential(config)

Requests(strategies, verb, patch) ==
    (IF NamedCredential \in strategies
     THEN <<Request(NamedCredential, verb, patch)>> ELSE <<>>)
        \o (IF PAT \in strategies THEN <<Request(PAT, verb, patch)>> ELSE <<>>)

ExceptionKinds == {"AzureDevOpsException", "TransportTimeout", "TransportError"}

Failure(kind, strategy) ==
    [kind |-> kind, strategy |-> strategy, status |-> 0, body |-> <<>>]

\* a catch clause that never retries
fallsBack_never(config, strategy, outcome) == FALSE

\* a catch clause that retries without looking for a token
fallsBack_ignoresToken(config, strategy, outcome) ==
    /\ strategy = NamedCredential
    /\ outcome.kind = "AzureDevOpsException"

\* a catch clause that also answers a timeout with the PAT retry
fallsBack_onTimeout(config, strategy, outcome) ==
    /\ strategy = NamedCredential
    /\ outcome.kind \in {"AzureDevOpsException", "TransportTimeout"}
    /\ config.hasPersonalAccessToken

\* is the exception of this attempt answered by the PAT retry
\* (catch (AzureDevOpsException ex) { if (config.hasPersonalAccessToken()) ... })
fallsBack(config, strategy, outcome) ==
    /\ strategy = NamedCredential
    /\ outcome.kind = "AzureDevOpsException"
    /\ config.hasPersonalAccessToken

FieldInputs ==
    {<<F_Title, StrVal(S_Fix)>>, <<F_Title, StrVal(S_Done)>>,
     <<F_State, StrVal(S_Done)>>, <<F_State, StrVal(S_done)>>,
     <<F_State, StrVal(S_CLOSED)>>, <<F_State, StrVal(S_ToDo)>>,
     <<F_Priority, NumVal(2)>>}

\* the caller adds one field to the request it prepares
PutField ==
    \E f \in FieldInputs :
        /\ pc = "idle"
        /\ Len(fields) <= MaxFields
        /\ fields' = put(fields, f[1], f[2])
        /\ UNCHANGED <<pc, call, inFlight, sent, outcomes, result>>
        /\ UNCHANGED cacheVars
        /\ UNCHANGED <<concVars, uiVars>>

\* entry of createWorkItem / updateWorkItem / deleteWorkItem / getWorkItems:
\* getConfig through the cache, strip, build the patch, first attempt
StartCall ==
    \E verb \in Verbs, name \in ConfigNames :
      \E route \in CallersOf(verb), rows \in MaxRowsOf(verb) :
        /\ pc = "idle"
        /\ verb \notin PatchVerbs => fields = <<>>
        /\ LET maxResults == IF verb = "getWorkItems"
                             THEN toApex(maxResultsPassed(route, rows))
                             ELSE NullVal
               before == ActiveStore(backendAvailable, platformCache, memoryCache)
           IN IF verb = "getWorkItems" /\ ~isPositiveInteger(maxResults)
              THEN /\ call' = [verb |-> verb, configName |-> name,
                               config |-> Config(FALSE, FALSE), fields |-> fields,
                               route |-> route, maxRows |-> rows,
                               maxResults |-> maxResults, storeBefore |-> before]
                   /\ pc' = "done"
                   /\ result' = Thrown("ValidationError", "")
                   /\ UNCHANGED <<inFlight, sent, platformCache, memoryCache,
                                  lastCompute, lastGet>>
              ELSE /\ CallGetOrCompute(CacheKey(name), CONFIG_TTL)
                   /\ LET config == lastGet'.value
                          fs == prepareFields(verb, fields)
                          patch == IF verb \in PatchVerbs THEN buildPatch(fs) ELSE <<>>
                          strategies == startStrategies(config)
                      IN /\ call' = [verb |-> verb, configName |-> name,
                                     config |-> config, fields |-> fields,
                                     route |-> route, maxRows |-> rows,
                                     maxResults |-> maxResults,
                                     storeBefore |-> before]
                         /\ IF strategies = {}
                            THEN /\ pc' = "done"
                                 /\ result' = Thrown("ConfigurationError", "")
                                 /\ UNCHANGED <<inFlight, sent>>
                            ELSE /\ pc' = "flight"
                                 /\ inFlight' = strategies
                                 /\ sent' = sent \o Requests(strategies, verb, patch)
                                 /\ UNCHANGED result
        /\ UNCHANGED <<fields, outcomes, now, source, backendAvailable>>
        /\ UNCHANGED <<concVars, uiVars>>

\* the request in flight is answered with an HTTP response, which is decoded
ReceiveResponse ==
    \E strategy \in inFlight, resp \in Responses :
        /\ pc = "flight"
        /\ outcomes' = Append(outcomes, [kind |-> "response", strategy |-> strategy,
                                         status |-> resp.status, body |-> resp.body])
        /\ result' = parseResult(resp)
        /\ inFlight' = inFlight \ {strategy}
        /\ pc' = "done"
        /\ UNCHANGED <<fields, call, sent>>
        /\ UNCHANGED cacheVars
        /\ UNCHANGED <<concVars, uiVars>>

\* the attempt throws and the catch clause retries once with the PAT
AttemptFailsFallback ==
    \E strategy \in inFlight, kind \in ExceptionKinds :
        /\ pc = "flight"
        /\ fallsBack(call.config, strategy, Failure(kind, strategy))
        /\ outcomes' = Append(outcomes, Failure(kind, strategy))
        /\ inFlight' = (inFlight \ {strategy}) \cup {PAT}
        /\ sent' = Append(sent, Request(PAT, call.verb, sent[Len(sent)].patch))
        /\ UNCHANGED <<pc, fields, call, result>>
        /\ UNCHANGED cacheVars
        /\ UNCHANGED <<concVars, uiVars>>

\* the attempt throws and nothing retries: the exception leaves the call
AttemptFailsPropagates ==
    \E strategy \in inFlight, kind \in ExceptionKinds :
        /\ pc = "flight"
        /\ ~fallsBack(call.config, strategy, Failure(kind, strategy))
        /\ outcomes' = Append(outcomes, Failure(kind, strategy))
        /\ inFlight' = inFlight \ {strategy}
        /\ result' = Thrown(kind, strategy)
        /\ pc' = "done"
        /\ UNCHANGED <<fields, call, sent>>
        /\ UNCHANGED cacheVars
        /\ UNCHANGED <<concVars, uiVars>>

\* the call has returned; the next request starts from an empty FieldSet
Return ==
    /\ pc = "done"
    /\ pc' = "idle"
    /\ fields' = <<>>
    /\ call' = NoCall
    /\ inFlight' = {}
    /\ sent' = <<>>
    /\ outcomes' = <<>>
    /\ result' = NoResult
    /\ UNCHANGED cacheVars
    /\ UNCHANGED <<concVars, uiVars>>

----------------------------------------------------------------------------
(* Concurrent callers of getOrCompute *)

Callers == {"t1", "t2"}

NoHolder == "none"

IdleCaller == [pc |-> "idle", key |-> "", value |-> Config(FALSE, FALSE)]

\* a lock that is handed to whoever asks for it
canAcquire_always(holder) == TRUE

\* the per-key mutual-exclusion scope admits one caller at a time
canAcquire(holder) == holder = NoHolder

Computing(k) == {c \in Callers : callers[c].pc = "computing" /\ callers[c].key = k}

ConcOnly == UNCHANGED <<serviceVars, uiVars, now, source, backendAvailable,
                        lastGet>>

\* a caller enters getOrCompute(k, CONFIG_TTL, supplier)
ConcCall ==
    \E c \in Callers, k \in CallKeys :
        /\ callers[c].pc = "idle"
        /\ callers' = [callers EXCEPT ![c] = [pc |-> "lookup", key |-> k,
                                              value |-> Config(FALSE, FALSE)]]
        /\ UNCHANGED <<locks, platformCache, memoryCache, lastCompute>>
        /\ ConcOnly

\* the lookup: a hit within the TTL returns the stored value, a miss goes on
\* to the supplier, through the key's lock when the in-memory Map is in use
ConcLookup ==
    \E c \in Callers :
        /\ callers[c].pc = "lookup"
        /\ LET k == callers[c].key
               store == ActiveStore(backendAvailable, platformCache, memoryCache)
           IN callers' = [callers EXCEPT ![c] =
                            IF IsHit(store, k, now)
                            THEN [@ EXCEPT !.pc = "done", !.value = store[k].value]
                            ELSE IF backendAvailable
                            THEN [@ EXCEPT !.pc = "computing",
                                           !.value = ConfigSupplier(source, k)]
                            ELSE [@ EXCEPT !.pc = "waiting"]]
        /\ UNCHANGED <<locks, platformCache, memoryCache, lastCompute>>
        /\ ConcOnly

\* the caller enters the key's scope and looks again: the value another
\* caller stored meanwhile is returned, otherwise the supplier is invoked
ConcAcquire ==
    \E c \in Callers :
        /\ callers[c].pc = "waiting"
        /\ canAcquire(locks[callers[c].key])
        /\ LET k == callers[c].key
           IN IF IsHit(memoryCache, k, now)
              THEN /\ callers' = [callers EXCEPT ![c].pc = "done",
                                                 ![c].value = memoryCache[k].value]
                   /\ UNCHANGED locks
              ELSE /\ callers' = [callers EXCEPT ![c].pc = "computing",
                                                 ![c].value = ConfigSupplier(source, k)]
                   /\ locks' = [locks EXCEPT ![k] = c]
        /\ UNCHANGED <<platformCache, memoryCache, lastCompute>>
        /\ ConcOnly

\* the supplier returns: the value is stored with expiry now + ttl, the
\* scope is left and the caller returns the value
ConcSupplierReturns ==
    \E c \in Callers :
        /\ callers[c].pc = "computing"
        /\ LET k == callers[c].key
               e == Entry(callers[c].value, now + CONFIG_TTL)
           IN /\ platformCache' = IF backendAvailable
                                  THEN [platformCache EXCEPT ![k] = e]
                                  ELSE platformCache
              /\ memoryCache' = IF backendAvailable THEN memoryCache
                                ELSE [memoryCache EXCEPT ![k] = e]
              /\ lastCompute' = [lastCompute EXCEPT
                                    ![k] = Computed(now, CONFIG_TTL, callers[c].value)]
              /\ locks' = IF locks[k] = c THEN [locks EXCEPT ![k] = NoHolder]
                          ELSE locks
        /\ callers' = [callers EXCEPT ![c].pc = "done"]
        /\ ConcOnly

\* getOrCompute has returned to the caller
ConcReturn ==
    \E c \in Callers :
        /\ callers[c].pc = "done"
        /\ callers' = [callers EXCEPT ![c] = IdleCaller]
        /\ UNCHANGED <<locks, platformCache, memoryCache, lastCompute>>
        /\ ConcOnly

ConcInit ==
    /\ callers = [c \in Callers |-> IdleCaller]
    /\ locks = [k \in CacheKeys |-> NoHolder]

NextConcurrent ==
    \/ ConcCall
    \/ ConcLookup
    \/ ConcAcquire
    \/ ConcSupplierReturns
    \/ ConcReturn
    \/ Tick
    \/ Redeploy

----------------------------------------------------------------------------
(* JavaScript strings and values of the Lightning web components *)

S_Empty == <<>>
S_Blank == <<32, 32>>
S_PaddedFix == <<32, 70, 105, 120, 32>>
S_Two == <<50>>
S_One == <<49>>
S_Ann == <<65, 110, 110>>
S_app == <<97, 112, 112>>

WhiteSpace == {9, 10, 13, 32}

RECURSIVE trimStart(_)
trimStart(s) ==
    IF s # <<>> /\ Head(s) \in WhiteSpace THEN trimStart(Tail(s)) ELSE s

RECURSIVE trimEnd(_)
trimEnd(s) ==
    IF s # <<>> /\ s[Len(s)] \in WhiteSpace
    THEN trimEnd(SubSeq(s, 1, Len(s) - 1))
    ELSE s

\* String.prototype.trim
trim(s) == trimEnd(trimStart(s))

\* String(n) of a small non-negative integer
StringOf(n) ==
    CASE n = 0 -> "0" [] n = 1 -> "1" [] n = 2 -> "2" [] n = 3 -> "3"
      [] n = 4 -> "4" [] n = 5 -> "5" [] n = 6 -> "6" [] n = 7 -> "7"
      [] n = 8 -> "8" [] n = 9 -> "9"

----------------------------------------------------------------------------
(* AzureDevOpsWorkItemCreator *)

MaxCreates == 2

\* what the Apex method getPriorities can hand to the component
PriorityData(kind, items) == [kind |-> kind, items |-> items]

ServerPriorities ==
    <<[label |-> "Critical", value |-> 1], [label |-> "High", value |-> 2]>>

PriorityAnswers ==
    {PriorityData("array", ServerPriorities), PriorityData("array", <<>>),
     PriorityData("null", <<>>), PriorityData("object", <<>>)}

getDefaultPriorityOptions ==
    LET defaultValues == <<"1", "2", "3", "4">>
    IN [i \in 1..4 |-> [label |-> defaultValues[i], value |-> defaultValues[i]]]

mapPriorities(items) ==
    [i \in 1..Len(items) |->
        [label |-> items[i].label, value |-> StringOf(items[i].value)]]

\* a loader that maps whatever array arrives, the empty one included
priorityOptionsOf_noLengthCheck(data) ==
    IF data.kind = "array" THEN mapPriorities(data.items)
    ELSE getDefaultPriorityOptions

\* try branch of loadPriorities
priorityOptionsOf(data) ==
    IF data.kind # "null" /\ data.kind = "array" /\ Len(data.items) > 0
    THEN mapPriorities(data.items)
    ELSE getDefaultPriorityOptions

\* a failure payload that still carries an identifier
PartialFailure == AzureResult(FALSE, "55", "status", 200)

\* what createWorkItem resolves with; NoResult stands for null
CreateAnswers ==
    {parseResult([status |-> 200, body |-> B_Created]),
     parseResult([status |-> 200, body |-> B_IdLast]),
     parseResult([status |-> 404, body |-> B_ErrorPayload]),
     PartialFailure, NoResult}

\* what createWorkItem rejects with
CreateRejections == {Thrown("AzureDevOpsException", PAT)}

NoWorkItem == [workItemId |-> ""]

NoClose == [closed |-> FALSE, success |-> FALSE, workItem |-> NoWorkItem]

CloseWith(ok, item) == [closed |-> TRUE, success |-> ok, workItem |-> item]

\* a handler that records the identifier before it looks at res.success
createdWorkItemOf_unchecked(res, previous) == [workItemId |-> res.workItemId]

\* lastCreatedWorkItem after the response res of createWorkItem
createdWorkItemOf(res, previous) ==
    IF res.kind = "result" /\ res.success
    THEN [workItemId |-> res.workItemId]
    ELSE previous

MaxTypeChanges == 2

S_Active == <<65, 99, 116, 105, 118, 101>>

\* what getAvailableStatesForType knows for a work item type
StatesOf(type) ==
    IF type = "Task" THEN <<S_ToDo, S_Done>>
    ELSE IF type = "Bug" THEN <<S_Active, S_CLOSED>>
    ELSE <<>>

\* what the Apex method hands to the component: an array, or null
StatesData(kind, items) == [kind |-> kind, items |-> items]

StatesAnswers(type) ==
    {StatesData("array", StatesOf(type)), StatesData("array", <<>>),
     StatesData("null", <<>>)}

\* (o.value || '').toString().trim().toLowerCase() is in terminalStates
isTerminalOption(value) ==
    toLowerCase(trim(value)) \in {S_done, toLowerCase(S_Closed), toLowerCase(S_Resolved)}

\* the options loadStatesForType stores for an array: the terminal states are
\* taken out only in modal mode
stateOptionsOf(items, modalMode) ==
    LET options == [i \in 1..Len(items) |-> [value |-> items[i]]]
        NotTerminal(o) == ~isTerminalOption(o.value)
    IN IF ~Falsy(modalMode) THEN SelectSeq(options, NotTerminal) ELSE options

\* selectedState after loadStatesForType stored the options
selectedStateAfter(options, selectedState) ==
    IF \E i \in 1..Len(options) : options[i].value = selectedState
    THEN selectedState
    ELSE IF Len(options) > 0 THEN options[1].value ELSE S_ToDo

NoCreateRequest ==
    [configName |-> "", workItemType |-> "", title |-> S_Empty, state |-> S_Empty]

\* what the most recently issued getAvailableStatesForType was answered with
NoStatesAnswer == [answered |-> FALSE, items |-> <<>>]

CreatorUnmounted ==
    [mounted |-> FALSE, hasEdit |-> FALSE, permission |-> "idle",
     permissionAnswer |-> "none",
     priorities |-> "idle", priorityOptions |-> <<>>,
     prioritiesAnswer |-> PriorityData("none", <<>>),
     selectedConfig |-> "", selectedWorkItemType |-> "", title |-> S_Empty,
     selectedState |-> S_ToDo, stateOptions |-> <<>>, modalMode |-> UndefinedVal,
     stateLoads |-> 0, pendingStates |-> {}, stateFailures |-> 0,
     statesAnswer |-> NoStatesAnswer,
     isLoading |-> FALSE, creates |-> 0, lastRequest |-> NoCreateRequest,
     pending |-> {}, createdIds |-> {}, lastAnswer |-> NoResult,
     lastCreatedWorkItem |-> NoWorkItem, closeResult |-> NoClose,
     toast |-> ""]

\* loadStatesForType() up to its await
loadStatesForType(c) ==
    [c EXCEPT !.stateLoads = @ + 1,
              !.pendingStates = @ \cup {[id |-> c.stateLoads + 1,
                                         workItemType |-> c.selectedWorkItemType]},
              !.statesAnswer = NoStatesAnswer]

\* LightningModal.close: the first call settles what open() resolves with
close(c, ok, item) ==
    IF c.closeResult.closed THEN c.closeResult ELSE CloseWith(ok, item)

CreatorOpen == creator.mounted /\ ~creator.closeResult.closed

CreatorOnly ==
    UNCHANGED <<cacheVars, serviceVars, concVars, modal, wlist, editor, manager>>

\* connectedCallback: the loads and the permission check are started; the
\* manager shows one modal at a time, so the editor is not on screen
CreatorConnected ==
    /\ ~creator.mounted
    /\ editor.emission.kind = "none"
    /\ creator' = [creator EXCEPT !.mounted = TRUE, !.permission = "pending",
                                  !.priorities = "pending"]
    /\ CreatorOnly

\* checkPermission after its await: hasEditPermission resolved or rejected
CheckPermissionReturns ==
    \E answer \in {"true", "false", "rejected"} :
        /\ creator.permission = "pending"
        /\ creator' = [creator EXCEPT !.permission = "done",
                                      !.permissionAnswer = answer,
                                      !.hasEdit = (answer = "true")]
        /\ CreatorOnly

\* loadPriorities after its await, getPriorities resolved
LoadPrioritiesReturns ==
    \E data \in PriorityAnswers :
        /\ creator.priorities = "pending"
        /\ creator' = [creator EXCEPT !.priorities = "done",
                                      !.prioritiesAnswer = data,
                                      !.priorityOptions = priorityOptionsOf(data)]
        /\ CreatorOnly

\* loadPriorities after its await, getPriorities rejected
LoadPrioritiesFails ==
    /\ creator.priorities = "pending"
    /\ creator' = [creator EXCEPT !.priorities = "done",
                                  !.prioritiesAnswer = PriorityData("rejected", <<>>),
                                  !.priorityOptions = getDefaultPriorityOptions,
                                  !.toast = "Error loading priorities"]
    /\ CreatorOnly

handleConfigChange ==
    \E v \in {"", "both"} :
        /\ CreatorOpen
        /\ creator.selectedConfig # v
        /\ creator' = [creator EXCEPT !.selectedConfig = v]
        /\ CreatorOnly

\* handleWorkItemTypeChange: the type is kept and its states are requested
handleWorkItemTypeChange ==
    \E v \in {"Task", "Bug"} :
        /\ CreatorOpen
        /\ creator.stateLoads < MaxTypeChanges
        /\ creator.selectedWorkItemType # v
        /\ creator' = loadStatesForType([creator EXCEPT !.selectedWorkItemType = v])
        /\ CreatorOnly

\* loadStatesForType after its await, getAvailableStatesForType resolved
LoadStatesReturns ==
    \E r \in creator.pendingStates :
        \E data \in StatesAnswers(r.workItemType) :
            /\ LET options == stateOptionsOf(data.items, creator.modalMode)
                   isLatest == r.id = creator.stateLoads
               IN creator' =
                    IF data.kind = "array"
                    THEN [creator EXCEPT
                            !.pendingStates = @ \ {r},
                            !.stateOptions = options,
                            !.selectedState = selectedStateAfter(options, @),
                            !.statesAnswer = IF isLatest
                                             THEN [answered |-> TRUE,
                                                   items |-> data.items]
                                             ELSE @]
                    ELSE [creator EXCEPT !.pendingStates = @ \ {r},
                                         !.stateFailures = @ + 1]
            /\ CreatorOnly

\* loadStatesForType after its await, getAvailableStatesForType rejected
LoadStatesFails ==
    \E r \in creator.pendingStates :
        /\ creator' = [creator EXCEPT !.pendingStates = @ \ {r},
                                      !.stateFailures = @ + 1,
                                      !.toast = "Error loading states"]
        /\ CreatorOnly

\* handleStateChange: one of the options on offer is picked
handleStateChange ==
    \E i \in 1..Len(creator.stateOptions) :
        /\ CreatorOpen
        /\ creator.selectedState # creator.stateOptions[i].value
        /\ creator' = [creator EXCEPT !.selectedState = creator.stateOptions[i].value]
        /\ CreatorOnly

\* handleInputChange of the title input
handleInputChange ==
    \E v \in {S_Empty, S_Blank, S_Fix, S_PaddedFix} :
        /\ CreatorOpen
        /\ creator.title # v
        /\ creator' = [creator EXCEPT !.title = v]
        /\ CreatorOnly

\* a validation that takes a title of white space for a title
missingInput_noTrim(c) ==
    \/ c.selectedConfig = ""
    \/ c.selectedWorkItemType = ""
    \/ c.title = <<>>

\* !this.selectedConfig || !this.selectedWorkItemType || !this.title?.trim()
missingInput(c) ==
    \/ c.selectedConfig = ""
    \/ c.selectedWorkItemType = ""
    \/ trim(c.title) = <<>>

\* handleCreateWorkItem up to its await
handleCreateWorkItem ==
    /\ CreatorOpen
    /\ creator.creates < MaxCreates
    /\ IF ~creator.hasEdit
       THEN creator' = [creator EXCEPT !.toast = "Permission Denied"]
       ELSE IF missingInput(creator)
       THEN creator' = [creator EXCEPT !.toast = "Validation Error"]
       ELSE creator' =
                [creator EXCEPT
                    !.isLoading = TRUE,
                    !.creates = @ + 1,
                    !.lastRequest = [configName |-> creator.selectedConfig,
                                     workItemType |-> creator.selectedWorkItemType,
                                     title |-> trim(creator.title),
                                     state |-> OrElse(StrVal(creator.selectedState),
                                                      StrVal(S_ToDo)).chars],
                    !.pending = @ \cup {creator.creates + 1}]
    /\ CreatorOnly

\* handleCreateWorkItem after its await, createWorkItem resolved with res
CreateWorkItemReturns ==
    \E i \in creator.pending, res \in CreateAnswers :
        /\ LET item == createdWorkItemOf(res, creator.lastCreatedWorkItem)
               ok == res.kind = "result" /\ res.success
           IN creator' =
                [creator EXCEPT
                    !.pending = @ \ {i},
                    !.createdIds = IF ok THEN @ \cup {res.workItemId} ELSE @,
                    !.lastAnswer = res,
                    !.lastCreatedWorkItem = item,
                    !.closeResult = IF ok THEN close(creator, TRUE, item) ELSE @,
                    !.toast = IF ok THEN @ ELSE "Creation Failed",
                    !.isLoading = FALSE]
        /\ CreatorOnly

\* handleCreateWorkItem after its await, createWorkItem rejected
CreateWorkItemFails ==
    \E i \in creator.pending, err \in CreateRejections :
        /\ creator' = [creator EXCEPT !.pending = @ \ {i},
                                      !.lastAnswer = err,
                                      !.toast = "Unexpected Error",
                                      !.isLoading = FALSE]
        /\ CreatorOnly

CreatorHandleCancel ==
    /\ CreatorOpen
    /\ creator' = [creator EXCEPT !.closeResult = close(creator, FALSE, NoWorkItem)]
    /\ CreatorOnly

----------------------------------------------------------------------------
(* AzureDevOpsWorkItemEditor: the priorities it offers *)

\* what the wire adapter of getPriorities emits: nothing yet, data, an error
WireEmissions ==
    {PriorityData("none", <<>>), PriorityData("array", ServerPriorities),
     PriorityData("array", <<>>), PriorityData("error", <<>>)}

EditorDefaultPriorities ==
    <<[label |-> "1", value |-> "1"], [label |-> "2", value |-> "2"],
      [label |-> "3", value |-> "3"], [label |-> "4", value |-> "4"]>>

\* data.map(p => ({ label: p.label, value: p.value }))
editorMapPriorities(items) ==
    [i \in 1..Len(items) |->
        [label |-> items[i].label, value |-> NumVal(items[i].value)]]

\* priorityOptions after the wire handler has run on an emission
wiredPrioritiesOptions(options, emission) ==
    IF emission.kind = "array"
    THEN IF Len(emission.items) = 0 THEN EditorDefaultPriorities
         ELSE editorMapPriorities(emission.items)
    ELSE IF emission.kind = "error" THEN EditorDefaultPriorities
    ELSE options

\* a ?? b
Coalesce(a, b) == IF a.type \in {"null", "undefined"} THEN b ELSE a

\* a !== b: values of different types are never equal
StrictlyUnequal(a, b) == a # b

\* the row values handleEditAction of the manager passes on: row.title || '',
\* row.priority || '2', for a priority that is absent, a text or a number
RowTitles == {StrVal(S_Empty), StrVal(S_Fix)}

RowPriorities == {UndefinedVal, StrVal(S_One), NumVal(2), NumVal(3)}

EditorUnmounted ==
    [opened |-> FALSE, untouched |-> FALSE,
     initialTitle |-> StrVal(S_Empty), initialDescription |-> StrVal(S_Empty),
     initialState |-> StrVal(S_Empty), initialPriority |-> StrVal(S_Two),
     title |-> StrVal(S_Empty), description |-> StrVal(S_Empty),
     state |-> StrVal(S_Empty), priority |-> StrVal(S_Two), isSaving |-> FALSE,
     priorityOptions |-> <<>>, emission |-> PriorityData("none", <<>>),
     toast |-> ""]

\* a comparison of the priority that converts both sides to text
hasChanges_textPriority(e) ==
    \/ StrictlyUnequal(e.title, OrElse(e.initialTitle, StrVal(S_Empty)))
    \/ StrictlyUnequal(e.description, OrElse(e.initialDescription, StrVal(S_Empty)))
    \/ StrictlyUnequal(e.state, OrElse(e.initialState, StrVal(S_Empty)))
    \/ StringOfValue(e.priority)
         # StringOfValue(OrElse(e.initialPriority, StrVal(S_Two)))

\* get hasChanges()
hasChanges(e) ==
    \/ StrictlyUnequal(e.title, OrElse(e.initialTitle, StrVal(S_Empty)))
    \/ StrictlyUnequal(e.description, OrElse(e.initialDescription, StrVal(S_Empty)))
    \/ StrictlyUnequal(e.state, OrElse(e.initialState, StrVal(S_Empty)))
    \/ StrictlyUnequal(e.priority, OrElse(e.initialPriority, StrVal(S_Two)))

\* get isSaveDisabled()
isSaveDisabled(e) ==
    e.isSaving \/ ~hasChanges(e) \/ trim(StringOfValue(e.title)) = <<>>

EditorOnly ==
    UNCHANGED <<cacheVars, serviceVars, concVars, creator, modal, wlist, manager>>

\* AzureDevOpsWorkItemEditor.open from handleEditAction, then
\* connectedCallback: the current values are the initial values of the row
EditorOpen ==
    \E rowTitle \in RowTitles, rowPriority \in RowPriorities :
        /\ ~editor.opened
        /\ ~CreatorOpen
        /\ LET passedTitle == OrElse(rowTitle, StrVal(S_Empty))
               passedDescription == OrElse(UndefinedVal, StrVal(S_Empty))
               passedState == OrElse(StrVal(S_Active), StrVal(S_Empty))
               passedPriority == OrElse(rowPriority, StrVal(S_Two))
           IN editor' =
                [editor EXCEPT
                    !.opened = TRUE,
                    !.untouched = TRUE,
                    !.initialTitle = passedTitle,
                    !.initialDescription = passedDescription,
                    !.initialState = passedState,
                    !.initialPriority = passedPriority,
                    !.title = Coalesce(passedTitle,
                                       Coalesce(passedTitle, StrVal(S_Empty))),
                    !.description = Coalesce(passedDescription,
                                             Coalesce(passedDescription,
                                                      StrVal(S_Empty))),
                    !.state = Coalesce(passedState,
                                       Coalesce(passedState, StrVal(S_Empty))),
                    !.priority =
                        StrVal(StringOfValue(
                            Coalesce(passedPriority,
                                     Coalesce(passedPriority, StrVal(S_Two)))))]
        /\ EditorOnly

\* handleInputChange of the title input
EditorHandleInputChange ==
    \E v \in {S_Empty, S_Fix, S_Ann} :
        /\ editor.opened
        /\ editor.title # StrVal(v)
        /\ editor' = [editor EXCEPT !.title = StrVal(v), !.untouched = FALSE]
        /\ EditorOnly

\* handlePriorityChange: String(value) of the option picked
EditorHandlePriorityChange ==
    \E v \in {S_One, S_Two} :
        /\ editor.opened
        /\ editor.priority # StrVal(v)
        /\ editor' = [editor EXCEPT !.priority = StrVal(StringOfValue(StrVal(v))),
                                    !.untouched = FALSE]
        /\ EditorOnly

\* handleReset
EditorHandleReset ==
    /\ editor.opened
    /\ editor' = [editor EXCEPT
                    !.title = OrElse(editor.initialTitle, StrVal(S_Empty)),
                    !.description = OrElse(editor.initialDescription, StrVal(S_Empty)),
                    !.state = OrElse(editor.initialState, StrVal(S_Empty)),
                    !.priority = OrElse(editor.initialPriority, StrVal(S_Two)),
                    !.untouched = TRUE]
    /\ EditorOnly

\* wiredPriorities({ error, data }), while the creator is not on screen
wiredPriorities ==
    \E emission \in WireEmissions :
        /\ ~CreatorOpen
        /\ emission # editor.emission
        /\ editor.emission.kind = "none"
        /\ editor' = [editor EXCEPT
                        !.emission = emission,
                        !.priorityOptions = wiredPrioritiesOptions(@, emission),
                        !.toast = IF emission.kind = "error"
                                  THEN "Error loading priorities" ELSE @]
        /\ EditorOnly

EditorInit == editor = EditorUnmounted

NextEditor ==
    \/ EditorOpen
    \/ EditorHandleInputChange
    \/ EditorHandlePriorityChange
    \/ EditorHandleReset
    \/ wiredPriorities

CreatorInit == creator = CreatorUnmounted

\* the form of the creator and its createWorkItem calls
NextCreator ==
    \/ CreatorConnected
    \/ CheckPermissionReturns
    \/ handleConfigChange
    \/ handleWorkItemTypeChange
    \/ handleInputChange
    \/ handleCreateWorkItem
    \/ CreateWorkItemReturns
    \/ CreateWorkItemFails
    \/ CreatorHandleCancel

\* the states the creator offers for the selected type
NextCreatorStates ==
    \/ CreatorConnected
    \/ CheckPermissionReturns
    \/ handleConfigChange
    \/ handleInputChange
    \/ handleWorkItemTypeChange
    \/ LoadStatesReturns
    \/ LoadStatesFails
    \/ handleStateChange
    \/ handleCreateWorkItem

----------------------------------------------------------------------------
(* UniversalModal and the field configurations of UniversalModalHelper *)

\* UniversalModalHelper.createField, as far as the modal reads the result
createField(name, required, defaultValue) ==
    [name |-> name, required |-> required,
     defaultValue |-> OrElse(defaultValue, StrVal(S_Empty))]

\* createFormConfig over the fields of the work item form of the examples
WorkItemForm ==
    <<createField("title", TRUE, UndefinedVal),
      createField("description", FALSE, UndefinedVal),
      createField("priority", TRUE, StrVal(S_Two))>>

\* formConfig = null
NoFormConfig == <<>>

FormConfigs == {NoFormConfig, WorkItemForm}

ModalTypes == {"confirm", "form", "list", "custom"}

\* a form that prepares entries for the required fields only
initializeFormData_requiredOnly(formFields) ==
    LET IsRequired(f) == f.required
        req == SelectSeq(formFields, IsRequired)
    IN [i \in 1..Len(req) |->
           [key |-> req[i].name,
            value |-> OrElse(req[i].defaultValue, StrVal(S_Empty))]]

\* initializeFormData: one entry per field, field.defaultValue || ''
initializeFormData(formFields) ==
    [i \in 1..Len(formFields) |->
        [key |-> formFields[i].name,
         value |-> OrElse(formFields[i].defaultValue, StrVal(S_Empty))]]

\* this.formData[name]
formValue(formData, name) ==
    IF containsKey(formData, name) THEN get(formData, name) ELSE UndefinedVal

\* a validation that looks for null and undefined only
isFilled_noTrim(value) == value.type \notin {"null", "undefined"}

\* the test isFormValid applies to the value of a required field
isFilled(value) ==
    /\ value.type # "null"
    /\ value.type # "undefined"
    /\ trim(StringOfValue(value)) # <<>>

isFormValid(formFields, formData) ==
    \A i \in 1..Len(formFields) :
        formFields[i].required => isFilled(formValue(formData, formFields[i].name))

\* a reason check that accepts anything but the empty string
reasonMissing_noTrim(requireReason, reason) == requireReason /\ reason = <<>>

\* this.requireReason && !this.reason?.trim()
reasonMissing(requireReason, reason) == requireReason /\ trim(reason) = <<>>

isConfirmDisabled(m) ==
    IF m.modalType = "confirm" THEN reasonMissing(m.requireReason, m.reason)
    ELSE IF m.modalType = "form"
    THEN m.loading \/ ~isFormValid(m.formConfig, m.formData)
    ELSE FALSE

\* event.detail.action of a datatable row action: the action object
\* an entry of rowActions, as the datatable hands it over in event.detail.action
RowActionObject(name) == [type |-> "object", name |-> name]

\* the string that is the name of an action
RowActionName(name) == [type |-> "string", name |-> name]

NoRowEvent == [action |-> RowActionObject(""), row |-> ""]

NoRowAction == RowActionObject("")

NoModalResult ==
    [closed |-> FALSE, confirmed |-> FALSE, action |-> "", reason |-> <<>>,
     formData |-> <<>>, rowAction |-> NoRowAction, rowData |-> ""]

ModalResult(confirmed, action, reason, formData, rowAction, rowData) ==
    [closed |-> TRUE, confirmed |-> confirmed, action |-> action,
     reason |-> reason, formData |-> formData, rowAction |-> rowAction,
     rowData |-> rowData]

ModalUnopened ==
    [open |-> FALSE, modalType |-> "confirm", requireReason |-> FALSE,
     formConfig |-> NoFormConfig, formData |-> <<>>, reason |-> S_Empty,
     loading |-> FALSE, lastChange |-> <<>>, rowEvent |-> NoRowEvent,
     closeResult |-> NoModalResult]

ModalOnly ==
    UNCHANGED <<cacheVars, serviceVars, concVars, creator, wlist, editor, manager>>

\* UniversalModal.open(...) followed by connectedCallback
ModalOpen ==
    \E type \in ModalTypes, req \in BOOLEAN, cfg \in FormConfigs :
        /\ ~modal.open
        /\ ~modal.closeResult.closed
        /\ modal' = [modal EXCEPT
                        !.open = TRUE,
                        !.modalType = type,
                        !.requireReason = req,
                        !.formConfig = cfg,
                        !.formData = IF type = "form" /\ cfg # NoFormConfig
                                     THEN initializeFormData(cfg)
                                     ELSE <<>>]
        /\ ModalOnly

ReasonInputs == {S_Empty, S_Blank, S_Fix, S_PaddedFix}

\* the reason textarea is part of the confirm layout
handleReasonChange ==
    \E v \in ReasonInputs :
        /\ modal.open
        /\ modal.modalType = "confirm"
        /\ modal.reason # v
        /\ modal' = [modal EXCEPT !.reason = v]
        /\ ModalOnly

FieldChangeValues ==
    {StrVal(S_Empty), StrVal(S_Blank), StrVal(S_Fix), NullVal, UndefinedVal}

\* a change event of one of the inputs rendered for formConfig.fields
handleFieldChange ==
    \E i \in 1..Len(modal.formConfig), value \in FieldChangeValues :
        /\ modal.open
        /\ modal.modalType = "form"
        /\ LET fieldName == modal.formConfig[i].name
           IN modal' = [modal EXCEPT
                           !.formData = put(@, fieldName, value),
                           !.lastChange = put(@, fieldName, value)]
        /\ ModalOnly

handleConfirm ==
    /\ modal.open
    /\ IF modal.modalType = "confirm"
       THEN IF reasonMissing(modal.requireReason, modal.reason)
            THEN UNCHANGED modal
            ELSE modal' = [modal EXCEPT
                              !.open = FALSE,
                              !.closeResult = ModalResult(TRUE, "confirm", modal.reason,
                                                          <<>>, NoRowAction, "")]
       ELSE IF modal.modalType = "form"
       THEN IF ~isFormValid(modal.formConfig, modal.formData)
            THEN UNCHANGED modal
            ELSE modal' = [modal EXCEPT
                              !.open = FALSE,
                              !.loading = TRUE,
                              !.closeResult = ModalResult(TRUE, "submit", <<>>,
                                                          modal.formData, NoRowAction, "")]
       ELSE IF modal.modalType = "list"
       THEN modal' = [modal EXCEPT
                         !.open = FALSE,
                         !.closeResult = ModalResult(TRUE, "close", <<>>, <<>>, NoRowAction, "")]
       ELSE modal' = [modal EXCEPT
                         !.open = FALSE,
                         !.closeResult = ModalResult(TRUE, "confirm", <<>>, <<>>, NoRowAction, "")]
    /\ ModalOnly

handleCancel ==
    /\ modal.open
    /\ modal' = [modal EXCEPT
                    !.open = FALSE,
                    !.closeResult = ModalResult(FALSE, "cancel", <<>>, <<>>, NoRowAction, "")]
    /\ ModalOnly

\* row action of the datatable, which is part of the list layout
handleRowAction ==
    \E action \in {"edit", "delete"}, row \in {"101", "102"} :
        /\ modal.open
        /\ modal.modalType = "list"
        /\ modal' = [modal EXCEPT
                        !.open = FALSE,
                        !.rowEvent = [action |-> RowActionObject(action), row |-> row],
                        !.closeResult = ModalResult(TRUE, "rowAction", <<>>, <<>>,
                                                    RowActionObject(action), row)]
        /\ ModalOnly

ModalInit == modal = ModalUnopened

NextModal ==
    \/ ModalOpen
    \/ handleReasonChange
    \/ handleFieldChange
    \/ handleConfirm
    \/ handleCancel
    \/ handleRowAction

----------------------------------------------------------------------------
(* AzureWorkItemList *)

MaxDeletes == 2

\* JSON.stringify of the incoming array, token by token
stringify(items) ==
    <<"[">> \o [i \in 1..Len(items) |-> StringOf(items[i].workItemId)] \o <<"]">>

\* incoming.map(w => ({ ...w, id: `${w.workItemId}` }))
withRowIds(items) ==
    [i \in 1..Len(items) |->
        [workItemId |-> items[i].workItemId, id |-> StringOf(items[i].workItemId)]]

WorkItemAnswers ==
    {<<>>, <<[workItemId |-> 1]>>, <<[workItemId |-> 1], [workItemId |-> 2]>>}

\* what UniversalModal.open resolves with: nothing on dismissal, or a result
Dismissed == [kind |-> "undefined", confirmed |-> FALSE, reason |-> S_Empty]

ConfirmResult(confirmed, reason) ==
    [kind |-> "result", confirmed |-> confirmed, reason |-> reason]

ConfirmResults ==
    {Dismissed, ConfirmResult(FALSE, S_Empty), ConfirmResult(TRUE, S_Empty)}

\* a handler that goes on whatever the modal was closed with
proceeds_always(modalResult) == TRUE

\* the negation of !modalResult || !modalResult.confirmed
proceeds(modalResult) == modalResult.kind # "undefined" /\ modalResult.confirmed

NoDeleteResult == [kind |-> "none", success |-> FALSE]

\* what deleteWorkItemWithReason resolves with (a result or null) or rejects with
DeleteResults ==
    {[kind |-> "result", success |-> TRUE], [kind |-> "result", success |-> FALSE],
     [kind |-> "null", success |-> FALSE], [kind |-> "error", success |-> FALSE]}

ListUnmounted ==
    [mounted |-> FALSE, configName |-> "", maxRows |-> NumVal(ListMaxRows),
     isLoading |-> FALSE, workItems |-> <<>>, lastSerialized |-> <<>>,
     loads |-> 0, queries |-> <<>>, confirming |-> 0, modalResult |-> Dismissed,
     deletes |-> <<>>, pendingDeletes |-> {}, deleteResult |-> NoDeleteResult,
     permission |-> "unchecked", toast |-> ""]

\* load() up to its await: nothing happens without a configName
load(l) ==
    IF l.configName = "" THEN l
    ELSE [l EXCEPT !.isLoading = TRUE, !.loads = @ + 1,
                   !.queries = Append(@, listMaxResults(l.maxRows))]

ListOnly ==
    UNCHANGED <<cacheVars, serviceVars, concVars, creator, modal, editor, manager>>

\* the component is created with its configName and connectedCallback runs
ListConnected ==
    \E name \in {"", "both"} :
        /\ ~wlist.mounted
        /\ wlist' = load([wlist EXCEPT !.mounted = TRUE, !.configName = name])
        /\ ListOnly

\* load() after its await, getWorkItems resolved with success
LoadReturns ==
    \E incoming \in WorkItemAnswers :
        /\ wlist.loads > 0
        /\ wlist' = [wlist EXCEPT
                        !.loads = @ - 1,
                        !.workItems = IF stringify(incoming) # wlist.lastSerialized
                                      THEN withRowIds(incoming) ELSE @,
                        !.lastSerialized = stringify(incoming),
                        !.isLoading = FALSE]
        /\ ListOnly

\* load() after its await: a failed result, null, or a rejection
LoadFails ==
    /\ wlist.loads > 0
    /\ wlist' = [wlist EXCEPT !.loads = @ - 1, !.toast = "Load failed",
                              !.isLoading = FALSE]
    /\ ListOnly

\* handleRowAction up to UniversalModal.open: Delete is offered on every row,
\* Edit is offered and does nothing
ListHandleRowAction ==
    \E i \in 1..Len(wlist.workItems), a \in {"delete", "edit"} :
        /\ wlist.mounted
        /\ wlist.confirming = 0
        /\ wlist' = IF a = "delete"
                    THEN [wlist EXCEPT !.confirming = wlist.workItems[i].workItemId]
                    ELSE [wlist EXCEPT !.toast = ""]
        /\ ListOnly

\* the confirm modal closes: a cancel ends the handler, a confirmation
\* issues deleteWorkItemWithReason
ListModalCloses ==
    \E modalResult \in ConfirmResults \cup {ConfirmResult(TRUE, S_Fix)} :
        /\ wlist.confirming # 0
        /\ Len(wlist.deletes) < MaxDeletes
        /\ wlist' =
             IF ~proceeds(modalResult)
             THEN [wlist EXCEPT !.confirming = 0, !.modalResult = modalResult]
             ELSE [wlist EXCEPT
                     !.confirming = 0,
                     !.modalResult = modalResult,
                     !.deletes = Append(@, [configName |-> wlist.configName,
                                            workItemId |-> wlist.confirming,
                                            reason |-> OrElse(StrVal(modalResult.reason),
                                                              NullVal)]),
                     !.pendingDeletes = @ \cup {Len(wlist.deletes) + 1}]
        /\ ListOnly

\* handleRowAction after deleteWorkItemWithReason: success reloads the list
DeleteReturns ==
    \E d \in wlist.pendingDeletes, res \in DeleteResults :
        /\ wlist' = IF res.kind = "result" /\ res.success
                    THEN load([wlist EXCEPT !.pendingDeletes = @ \ {d},
                                            !.deleteResult = res,
                                            !.toast = "Deleted"])
                    ELSE [wlist EXCEPT !.pendingDeletes = @ \ {d},
                                       !.deleteResult = res,
                                       !.toast = "Delete failed"]
        /\ ListOnly

ListInit == wlist = ListUnmounted

NextList ==
    \/ ListConnected
    \/ LoadReturns
    \/ LoadFails
    \/ ListHandleRowAction
    \/ ListModalCloses
    \/ DeleteReturns

----------------------------------------------------------------------------
(* AzureDevOpsWorkItemManager *)

\* work items as getWorkItems returns them; an unassigned item has no assignedTo
WorkItem(id, title, type, state, assignedTo) ==
    [workItemId |-> id, title |-> title, workItemType |-> type, state |-> state,
     assignedTo |-> assignedTo]

W1 == WorkItem(1, S_Fix, "Bug", "Active", StrVal(S_Ann))
W2 == WorkItem(2, S_app, "Task", "Done", UndefinedVal)
W3 == WorkItem(3, S_Ann, "Bug", "Done", StrVal(S_app))

ManagerAnswers == {<<>>, <<W2, W1>>, <<W3, W1, W2>>}

\* (res.workItems || []).map(w => ({ ...w, id: `${w.workItemId}` }))
mapWorkItems(items) ==
    [i \in 1..Len(items) |->
        [workItemId |-> items[i].workItemId, title |-> items[i].title,
         workItemType |-> items[i].workItemType, state |-> items[i].state,
         assignedTo |-> items[i].assignedTo, id |-> StringOf(items[i].workItemId)]]

\* haystack.includes(needle)
includes(haystack, needle) ==
    \E i \in 1..(Len(haystack) + 1) :
        /\ i + Len(needle) - 1 <= Len(haystack)
        /\ SubSeq(haystack, i, i + Len(needle) - 1) = needle

\* a < b on strings: code unit by code unit
RECURSIVE stringLess(_, _)
stringLess(a, b) ==
    IF b = <<>> THEN FALSE
    ELSE IF a = <<>> THEN TRUE
    ELSE IF Head(a) # Head(b) THEN Head(a) < Head(b)
    ELSE stringLess(Tail(a), Tail(b))

\* a < b of the language: undefined compares false with everything
lessThan(a, b) ==
    IF a.type = "string" /\ b.type = "string" THEN stringLess(a.chars, b.chars)
    ELSE IF a.type = "number" /\ b.type = "number" THEN a.num < b.num
    ELSE FALSE

\* i[k] for the sortable columns
column(item, k) ==
    CASE k = "title" -> StrVal(item.title)
      [] k = "workItemId" -> NumVal(item.workItemId)
      [] k = "assignedTo" -> item.assignedTo

SortColumns == {"title", "workItemId", "assignedTo"}

lowered(v) == IF v.type = "string" THEN StrVal(toLowerCase(v.chars)) ELSE v

\* the comparator of sortData: vb.toLowerCase() is a TypeError when va is a
\* string and vb is not
compare(a, b, k, direction) ==
    LET va == column(a, k)
        vb == column(b, k)
        rev == IF direction = "desc" THEN -1 ELSE 1
        la == IF va.type = "string" THEN lowered(va) ELSE va
        lb == IF va.type = "string" THEN lowered(vb) ELSE vb
    IN IF va.type = "string" /\ vb.type # "string"
       THEN [threw |-> TRUE, sign |-> 0]
       ELSE [threw |-> FALSE,
             sign |-> IF lessThan(la, lb) THEN -1 * rev
                      ELSE IF lessThan(lb, la) THEN rev ELSE 0]

SortThrew == [threw |-> TRUE, items |-> <<>>]

Sorted(items) == [threw |-> FALSE, items |-> items]

\* Array.prototype.sort places one element among those already in order;
\* which of the two it hands to the comparator first is left to the engine
RECURSIVE insertInOrder(_, _, _, _, _)
insertInOrder(placed, x, k, direction, pivotFirst) ==
    IF placed = <<>> THEN Sorted(<<x>>)
    ELSE LET last == placed[Len(placed)]
             c == IF pivotFirst THEN compare(x, last, k, direction)
                  ELSE compare(last, x, k, direction)
             before == IF pivotFirst THEN c.sign < 0 ELSE c.sign > 0
         IN IF c.threw THEN SortThrew
            ELSE IF before
            THEN LET r == insertInOrder(SubSeq(placed, 1, Len(placed) - 1), x, k,
                                        direction, pivotFirst)
                 IN IF r.threw THEN SortThrew ELSE Sorted(Append(r.items, last))
            ELSE Sorted(Append(placed, x))

\* sortData(d): the array in the order sort leaves it in, or the TypeError
RECURSIVE sortData(_, _, _, _)
sortData(d, k, direction, pivotFirst) ==
    IF d = <<>> THEN Sorted(<<>>)
    ELSE LET r == sortData(SubSeq(d, 1, Len(d) - 1), k, direction, pivotFirst)
         IN IF r.threw THEN SortThrew
            ELSE insertInOrder(r.items, d[Len(d)], k, direction, pivotFirst)

\* the three filters of applyFilters, on one item
matchesSearch(item, term) ==
    LET s == toLowerCase(term)
    IN s # <<>> =>
        \/ includes(toLowerCase(item.title), s)
        \/ includes(StringOfValue(NumVal(item.workItemId)), s)
        \/ includes(toLowerCase(OrElse(item.assignedTo, StrVal(S_Empty)).chars), s)

matchesType(item, typeFilter) == typeFilter # "" => item.workItemType = typeFilter

matchesState(item, stateFilter) == stateFilter # "" => item.state = stateFilter

\* applyFilters: filteredWorkItems is assigned only when sortData returns
applyFilters(m, pivotFirst) ==
    LET Keep(item) == /\ matchesSearch(item, m.searchTerm)
                      /\ matchesType(item, m.selectedTypeFilter)
                      /\ matchesState(item, m.selectedStateFilter)
        f == SelectSeq(m.workItems, Keep)
        r == sortData(f, m.sortedBy, m.sortedDirection, pivotFirst)
    IN IF r.threw THEN [m EXCEPT !.filterThrew = TRUE]
       ELSE [m EXCEPT !.filteredWorkItems = r.items, !.filterThrew = FALSE]

MaxLoads == 2

\* buildColumns(): the names of the row actions of the action column
buildColumns_allActions(hasEdit) == <<"edit", "delete", "open_azure">>

buildColumns(hasEdit) ==
    (IF hasEdit THEN <<"edit", "delete">> ELSE <<>>) \o <<"open_azure">>

\* calculateStats()
calculateStats(items) ==
    LET InProgress(w) == w.state \in {"Active", "Doing", "In Progress"}
        Completed(w) == w.state \in {"Closed", "Done", "Resolved"}
    IN [total |-> Len(items), inProgress |-> Len(SelectSeq(items, InProgress)),
        completed |-> Len(SelectSeq(items, Completed))]

NoDialog == [kind |-> "none", workItemId |-> 0, conf |-> ""]

NoRequest == [configName |-> "", maxResults |-> NullVal]

NoDeleteCall == [configName |-> "", workItemId |-> 0, reason |-> NullVal]

\* what the most recently issued getWorkItems request was answered with
NoLatest == [answered |-> FALSE, items |-> <<>>]

ManagerUnmounted ==
    [mounted |-> FALSE, maxRows |-> NumVal(ManagerMaxRows),
     hasEdit |-> FALSE, permission |-> "unchecked", columns |-> <<>>,
     configurations |-> <<>>, configsPending |-> FALSE, selectedConfig |-> "",
     isLoading |-> FALSE, error |-> "",
     workItems |-> <<>>, filteredWorkItems |-> <<>>, filterThrew |-> FALSE,
     workItemStats |-> [total |-> 0, inProgress |-> 0, completed |-> 0],
     selectedTypeFilter |-> "", selectedStateFilter |-> "",
     searchTerm |-> S_Empty, searchTimer |-> FALSE,
     sortedBy |-> "title", sortedDirection |-> "asc",
     issued |-> 0, lastRequest |-> NoRequest, pending |-> {},
     failedLoads |-> 0, latest |-> NoLatest,
     dialog |-> NoDialog, modalResult |-> Dismissed,
     deleteCalls |-> 0, lastDelete |-> NoDeleteCall, pendingDeletes |-> {},
     deleteResult |-> NoDeleteResult]

\* loadWorkItems() up to its await: nothing happens without a selectedConfig
loadWorkItems_keepLoadingFlag(m) ==
    IF m.selectedConfig = "" THEN m
    ELSE [m EXCEPT
            !.issued = @ + 1,
            !.lastRequest = [configName |-> m.selectedConfig,
                             maxResults |-> managerMaxResults(m.maxRows)],
            !.latest = NoLatest,
            !.pending = @ \cup {m.issued + 1}]

loadWorkItems(m) ==
    IF m.selectedConfig = "" THEN m
    ELSE [m EXCEPT
            !.isLoading = TRUE,
            !.issued = @ + 1,
            !.lastRequest = [configName |-> m.selectedConfig,
                             maxResults |-> managerMaxResults(m.maxRows)],
            !.latest = NoLatest,
            !.pending = @ \cup {m.issued + 1}]

\* a load may be started while the bound on requests is not reached
MayLoad == manager.issued < MaxLoads

ManagerOnly ==
    UNCHANGED <<cacheVars, serviceVars, concVars, creator, modal, wlist, editor>>

\* connectedCallback: loadInitialData up to its await, checkPermission up to its
ManagerConnected ==
    /\ ~manager.mounted
    /\ manager' = [manager EXCEPT !.mounted = TRUE, !.isLoading = TRUE,
                                  !.configsPending = TRUE,
                                  !.permission = "pending"]
    /\ ManagerOnly

\* checkPermission after its await: hasEditPermission resolved or rejected
ManagerPermissionReturns ==
    \E answer \in {"true", "false", "rejected"} :
        /\ manager.permission = "pending"
        /\ manager' = [manager EXCEPT
                          !.permission = answer,
                          !.hasEdit = (answer = "true"),
                          !.columns = buildColumns(answer = "true")]
        /\ ManagerOnly

\* loadInitialData after getAvailableConfigurations resolved: with
\* configurations the first is selected and the work items are requested
ConfigurationsReturn ==
    \E configs \in {<<>>, <<"both">>, <<"both", "ncOnly">>} :
        /\ manager.configsPending
        /\ manager' =
             IF configs = <<>>
             THEN [manager EXCEPT !.configsPending = FALSE,
                                  !.configurations = configs,
                                  !.isLoading = FALSE]
             ELSE loadWorkItems([manager EXCEPT !.configsPending = FALSE,
                                                !.configurations = configs,
                                                !.selectedConfig = configs[1]])
        /\ ManagerOnly

\* loadInitialData after getAvailableConfigurations rejected
ConfigurationsFail ==
    /\ manager.configsPending
    /\ manager' = [manager EXCEPT !.configsPending = FALSE,
                                  !.error = "Failed to load",
                                  !.isLoading = FALSE]
    /\ ManagerOnly

\* loadWorkItems after its await, getWorkItems resolved with success
GetWorkItemsReturns ==
    \E i \in manager.pending, incoming \in ManagerAnswers, pivotFirst \in BOOLEAN :
        /\ LET received == [manager EXCEPT
                              !.pending = @ \ {i},
                              !.latest = IF i = manager.issued
                                         THEN [answered |-> TRUE, items |-> incoming]
                                         ELSE @,
                              !.workItems = mapWorkItems(incoming)]
               filtered == applyFilters(received, pivotFirst)
           IN manager' =
                IF filtered.filterThrew
                THEN [filtered EXCEPT !.error = "Failed to load work items",
                                      !.isLoading = FALSE]
                ELSE [filtered EXCEPT
                        !.workItemStats = calculateStats(filtered.workItems),
                        !.isLoading = FALSE]
        /\ ManagerOnly

\* loadWorkItems after its await: a failed result, null, or a rejection
GetWorkItemsFails ==
    \E i \in manager.pending :
        /\ manager' = [manager EXCEPT !.pending = @ \ {i},
                                      !.failedLoads = @ + 1,
                                      !.error = "Failed to load work items",
                                      !.isLoading = FALSE]
        /\ ManagerOnly

handleRefresh ==
    /\ manager.mounted
    /\ MayLoad
    /\ manager.selectedConfig # ""
    /\ manager' = loadWorkItems(manager)
    /\ ManagerOnly

\* the values of configOptions
configOptionValues(m) == {""} \cup {m.configurations[i] : i \in 1..Len(m.configurations)}

handleConfigFilterChange ==
    \E value \in configOptionValues(manager) :
        /\ manager.mounted
        /\ MayLoad
        /\ value # manager.selectedConfig
        /\ manager' = loadWorkItems([manager EXCEPT !.selectedConfig = value])
        /\ ManagerOnly

\* the values of typeFilterOptions and stateFilterOptions
typeFilterValues(m) == {""} \cup {m.workItems[i].workItemType : i \in 1..Len(m.workItems)}

stateFilterValues(m) == {""} \cup {m.workItems[i].state : i \in 1..Len(m.workItems)}

handleTypeFilterChange ==
    \E value \in typeFilterValues(manager), pivotFirst \in BOOLEAN :
        /\ manager.mounted
        /\ value # manager.selectedTypeFilter
        /\ manager' = applyFilters([manager EXCEPT !.selectedTypeFilter = value],
                                   pivotFirst)
        /\ ManagerOnly

handleStateFilterChange ==
    \E value \in stateFilterValues(manager), pivotFirst \in BOOLEAN :
        /\ manager.mounted
        /\ value # manager.selectedStateFilter
        /\ manager' = applyFilters([manager EXCEPT !.selectedStateFilter = value],
                                   pivotFirst)
        /\ ManagerOnly

SearchTerms == {S_Empty, S_Fix, S_One}

\* handleSearchChange: the term is kept and the timer is set anew
handleSearchChange ==
    \E term \in SearchTerms :
        /\ manager.mounted
        /\ term # manager.searchTerm
        /\ manager' = [manager EXCEPT !.searchTerm = term, !.searchTimer = TRUE]
        /\ ManagerOnly

\* the callback of the search timer, 250 ms after the last change
SearchTimerFires ==
    \E pivotFirst \in BOOLEAN :
        /\ manager.searchTimer
        /\ manager' = applyFilters([manager EXCEPT !.searchTimer = FALSE], pivotFirst)
        /\ ManagerOnly

handleSort ==
    \E fieldName \in SortColumns, sortDirection \in {"asc", "desc"},
       pivotFirst \in BOOLEAN :
        /\ manager.mounted
        /\ <<fieldName, sortDirection>> # <<manager.sortedBy, manager.sortedDirection>>
        /\ manager' = applyFilters([manager EXCEPT !.sortedBy = fieldName,
                                                   !.sortedDirection = sortDirection],
                                   pivotFirst)
        /\ ManagerOnly

\* handleCreateWorkItem up to AzureDevOpsWorkItemCreator.open
ManagerHandleCreateWorkItem ==
    /\ manager.mounted
    /\ manager.dialog = NoDialog
    /\ MayLoad
    /\ manager' = [manager EXCEPT !.dialog = [kind |-> "creator", workItemId |-> 0,
                                              conf |-> manager.selectedConfig]]
    /\ ManagerOnly

\* handleRowAction: the actions on offer are those of columns; Edit and Delete
\* open a modal, Open in Azure leaves the component as it is
ManagerHandleRowAction ==
    \E i \in 1..Len(manager.filteredWorkItems), c \in 1..Len(manager.columns) :
        /\ manager.dialog = NoDialog
        /\ manager.columns[c] \in {"edit", "delete"}
        /\ MayLoad
        /\ manager' =
             [manager EXCEPT
                !.dialog = [kind |-> IF manager.columns[c] = "edit" THEN "editor"
                                     ELSE "confirm",
                            workItemId |-> manager.filteredWorkItems[i].workItemId,
                            conf |-> manager.selectedConfig]]
        /\ ManagerOnly

\* handleCreateWorkItem and handleEditAction after the modal closed: a result
\* with success reloads the work items
ManagerModalCloses ==
    \E success \in BOOLEAN :
        /\ manager.dialog.kind \in {"creator", "editor"}
        /\ manager' = IF success
                      THEN loadWorkItems([manager EXCEPT !.dialog = NoDialog])
                      ELSE [manager EXCEPT !.dialog = NoDialog]
        /\ ManagerOnly

\* handleDeleteAction after UniversalModal.open resolved: only a confirmed
\* result goes on to deleteWorkItemWithReason
ManagerConfirmCloses ==
    \E modalResult \in ConfirmResults :
        /\ manager.dialog.kind = "confirm"
        /\ manager.deleteCalls < MaxDeletes
        /\ manager' =
             IF ~proceeds(modalResult)
             THEN [manager EXCEPT !.dialog = NoDialog, !.modalResult = modalResult]
             ELSE [manager EXCEPT
                     !.dialog = NoDialog,
                     !.modalResult = modalResult,
                     !.deleteCalls = @ + 1,
                     !.lastDelete = [configName |-> manager.dialog.conf,
                                     workItemId |-> manager.dialog.workItemId,
                                     reason |-> OrElse(StrVal(modalResult.reason),
                                                       NullVal)],
                     !.pendingDeletes = @ \cup {manager.deleteCalls + 1}]
        /\ ManagerOnly

\* handleDeleteAction after deleteWorkItemWithReason: success reloads
ManagerDeleteReturns ==
    \E d \in manager.pendingDeletes, res \in DeleteResults :
        /\ MayLoad
        /\ manager' =
             IF res.kind = "result" /\ res.success
             THEN loadWorkItems([manager EXCEPT !.pendingDeletes = @ \ {d},
                                                !.deleteResult = res])
             ELSE [manager EXCEPT !.pendingDeletes = @ \ {d},
                                  !.deleteResult = res,
                                  !.error = IF res.kind = "error"
                                            THEN "Delete failed" ELSE @]
        /\ ManagerOnly

ManagerInit == manager = ManagerUnmounted

\* the loads of the manager and what starts them
NextManager ==
    \/ ManagerConnected
    \/ ConfigurationsReturn
    \/ ConfigurationsFail
    \/ GetWorkItemsReturns
    \/ GetWorkItemsFails
    \/ handleRefresh
    \/ handleConfigFilterChange
    \/ ManagerHandleCreateWorkItem
    \/ ManagerModalCloses

\* the permission of the manager and its row actions
NextManagerActions ==
    \/ ManagerConnected
    \/ ManagerPermissionReturns
    \/ ConfigurationsReturn
    \/ GetWorkItemsReturns
    \/ ManagerHandleRowAction
    \/ ManagerModalCloses
    \/ ManagerConfirmCloses
    \/ ManagerDeleteReturns

\* what the creator, the editor and the manager load when they are shown
NextMounting ==
    \/ CreatorConnected
    \/ CheckPermissionReturns
    \/ LoadPrioritiesReturns
    \/ LoadPrioritiesFails
    \/ CreatorHandleCancel
    \/ wiredPriorities
    \/ ManagerConnected
    \/ ManagerPermissionReturns

\* the deletes of the manager and of the list; the two share no state, so a
\* behaviour of both is an interleaving of one of each, and each is followed
\* on its own
NextDeletes ==
    \/ ~wlist.mounted /\ ManagerConnected
    \/ ~wlist.mounted /\ ManagerPermissionReturns
    \/ ~wlist.mounted /\ ConfigurationsReturn
    \/ ~wlist.mounted /\ GetWorkItemsReturns
    \/ ~wlist.mounted /\ ManagerHandleRowAction
    \/ ~wlist.mounted /\ ManagerModalCloses
    \/ ~wlist.mounted /\ ManagerConfirmCloses
    \/ ~wlist.mounted /\ ManagerDeleteReturns
    \/ ~manager.mounted /\ ListConnected
    \/ ~manager.mounted /\ LoadReturns
    \/ ~manager.mounted /\ LoadFails
    \/ ~manager.mounted /\ ListHandleRowAction
    \/ ~manager.mounted /\ ListModalCloses
    \/ ~manager.mounted /\ DeleteReturns

\* filters and sorting of the manager
NextManagerFilters ==
    \/ ManagerConnected
    \/ ConfigurationsReturn
    \/ GetWorkItemsReturns
    \/ handleTypeFilterChange
    \/ handleStateFilterChange
    \/ handleSearchChange
    \/ SearchTimerFires
    \/ handleSort

ServiceInit ==
    /\ pc = "idle"
    /\ fields = <<>>
    /\ call = NoCall
    /\ inFlight = {}
    /\ sent = <<>>
    /\ outcomes = <<>>
    /\ result = NoResult

Init ==
    /\ CacheInit
    /\ ServiceInit
    /\ ConcInit
    /\ CreatorInit
    /\ ModalInit
    /\ ListInit
    /\ EditorInit
    /\ ManagerInit

NextCache == GetOrComputeCall \/ Tick \/ Redeploy

SpecCache == Init /\ [][NextCache]_vars

SpecConcurrent == Init /\ [][NextConcurrent]_vars

SpecCreator == Init /\ [][NextCreator]_vars

SpecCreatorStates == Init /\ [][NextCreatorStates]_vars

SpecEditor == Init /\ [][NextEditor]_vars

SpecModal == Init /\ [][NextModal]_vars

SpecList == Init /\ [][NextList]_vars

SpecManager == Init /\ [][NextManager]_vars

SpecManagerActions == Init /\ [][NextManagerActions]_vars

SpecMounting == Init /\ [][NextMounting]_vars

SpecDeletes == Init /\ [][NextDeletes]_vars

SpecManagerFilters == Init /\ [][NextManagerFilters]_vars

Next ==
    \/ PutField
    \/ StartCall
    \/ ReceiveResponse
    \/ AttemptFailsFallback
    \/ AttemptFailsPropagates
    \/ Return

Spec == Init /\ [][Next]_vars

----------------------------------------------------------------------------
(* Properties of the cache *)

----------------------------------------------------------------------------
(* Properties of the service *)

NoMechanism(config) ==
    ~config.hasNamedCredential /\ ~config.hasPersonalAccessToken

ResultOf(o) ==
    IF o.kind = "response" THEN parseResult([status |-> o.status, body |-> o.body])
    ELSE Thrown(o.kind, o.strategy)

\* C2: a write operation on a configuration with neither a Named Credential
\* nor a PAT ends with ConfigurationError and makes no Transport invocation.
C2_NoCredentialFailsFast ==
    (pc # "idle" /\ call.verb \in WriteVerbs /\ NoMechanism(source[call.configName])) =>
        /\ pc = "done"
        /\ result = Thrown("ConfigurationError", "")
        /\ Len(sent) = 0
        /\ inFlight = {}

C2_Witness ==
    /\ pc = "done"
    /\ call.verb = "deleteWorkItem"
    /\ NoMechanism(source[call.configName])
    /\ result.exception = "ConfigurationError"

\* C3: with both mechanisms configured, when the Named Credential attempt
\* raises an authentication error exactly one further attempt is made, with
\* the PAT, and the call ends with the outcome of that PAT attempt.
C3_FallbackOnce ==
    (/\ call.config = Config(TRUE, TRUE)
     /\ Len(outcomes) >= 1
     /\ outcomes[1].kind = "AzureDevOpsException"
     /\ outcomes[1].strategy = NamedCredential) =>
        /\ Len(sent) = 2
        /\ sent[1].strategy = NamedCredential
        /\ sent[2].strategy = PAT
        /\ pc = "flight" => (inFlight = {PAT} /\ Len(outcomes) = 1)
        /\ pc = "done" =>
            /\ Len(outcomes) = 2
            /\ outcomes[2].strategy = PAT
            /\ result = ResultOf(outcomes[2])

C3_Witness ==
    /\ pc = "done"
    /\ call.config = Config(TRUE, TRUE)
    /\ Len(sent) = 2
    /\ Len(outcomes) = 2
    /\ outcomes[1].kind = "AzureDevOpsException"
    /\ result.success

\* C4: with only the Named Credential configured, a failed attempt ends the
\* call with exactly that failure after one attempt; no PAT attempt is made.
C4_ManagedOnlyPropagates ==
    (pc # "idle" /\ call.config = Config(TRUE, FALSE)) =>
        /\ PAT \notin inFlight
        /\ \A i \in 1..Len(sent) : sent[i].strategy = NamedCredential
        /\ (Len(outcomes) >= 1 /\ outcomes[1].kind # "response") =>
            /\ pc = "done"
            /\ Len(sent) = 1
            /\ Len(outcomes) = 1
            /\ result = Thrown(outcomes[1].kind, NamedCredential)

C4_Witness ==
    /\ pc = "done"
    /\ call.config = Config(TRUE, FALSE)
    /\ Len(sent) = 1
    /\ result = Thrown("AzureDevOpsException", NamedCredential)

\* C5: a verb call makes at most two round trips; the second one is the PAT
\* retry after an authentication failure of the Named Credential attempt;
\* a call whose first attempt got a response, or that has no fallback, makes
\* exactly one; the outcome of the retry is final and nothing is sent after a
\* timeout.
C5_AtMostTwoRoundTrips ==
    /\ Len(sent) <= 2
    /\ Len(sent) = 2 =>
        /\ call.config = Config(TRUE, TRUE)
        /\ sent[1].strategy = NamedCredential
        /\ sent[2].strategy = PAT
        /\ Len(outcomes) >= 1
        /\ outcomes[1].kind = "AzureDevOpsException"
    /\ (/\ Len(outcomes) >= 1
        /\ \/ outcomes[1].kind = "response"
           \/ call.config # Config(TRUE, TRUE)) => Len(sent) = 1
    /\ Len(outcomes) = 2 => (pc = "done" /\ result = ResultOf(outcomes[2]))
    /\ \A i \in 1..Len(outcomes) :
        outcomes[i].kind \in {"TransportTimeout", "TransportError"} =>
            /\ Len(sent) = i
            /\ pc = "done"
            /\ result = Thrown(outcomes[i].kind, outcomes[i].strategy)

C5_Witness ==
    /\ pc = "done"
    /\ call.verb = "createWorkItem"
    /\ Len(sent) = 2
    /\ Len(outcomes) = 2
    /\ outcomes[2].kind = "TransportTimeout"

\* C6: the PAT attempt of a call starts only after its Named Credential
\* attempt has completed with a failure; the two are never in flight
\* together and no PAT attempt follows a Named Credential attempt that got a
\* response.
C6_FallbackIsSequential ==
    /\ Cardinality(inFlight) <= 1
    /\ Len(sent) = Len(outcomes) + Cardinality(inFlight)
    /\ (PAT \in inFlight /\ call.config.hasNamedCredential) =>
        /\ Len(outcomes) = 1
        /\ outcomes[1].strategy = NamedCredential
        /\ outcomes[1].kind # "response"
    /\ \A i \in 1..Len(outcomes) : outcomes[i].kind = "response" => Len(sent) = i

C6_Witness ==
    /\ pc = "flight"
    /\ inFlight = {PAT}
    /\ call.config.hasNamedCredential
    /\ Len(outcomes) = 1
    /\ outcomes[1].strategy = NamedCredential

StatePath == "/fields/System.State"

\* the spellings of terminal state names among the inputs
TerminalSpellings == {S_Done, S_done, S_CLOSED}

HasTerminalState(fs) ==
    \E i \in 1..Len(fs) :
        fs[i].key = F_State /\ fs[i].value.chars \in TerminalSpellings

HasOp(patch, k, v) ==
    \E j \in 1..Len(patch) :
        patch[j] = [op |-> "add", path |-> "/fields/" \o k, value |-> v]

C8_UpdateKeepsTerminalState ==
    \A r \in 1..Len(sent) :
        (sent[r].verb = "updateWorkItem" /\ HasTerminalState(call.fields)) =>
            HasOp(sent[r].patch, F_State, get(call.fields, F_State))

C8_Witness ==
    /\ Len(sent) = 2
    /\ sent[2].verb = "updateWorkItem"
    /\ HasOp(sent[2].patch, F_State, StrVal(S_Done))

\* the FieldSet buildPatch is given by a verb
FieldsToEncode ==
    IF call.verb = "createWorkItem" /\ HasTerminalState(call.fields)
    THEN LET NotState(e) == e.key # F_State IN SelectSeq(call.fields, NotState)
    ELSE call.fields

\* C9: the patch built from a FieldSet has exactly one operation per key,
\* each an "add" on /fields/<key> with the key's value, in insertion order,
\* and no two operations have the same path.
C9_BuildPatchOnePerKey ==
    \A r \in 1..Len(sent) :
        sent[r].verb \in PatchVerbs =>
            LET patch == sent[r].patch
                fs == FieldsToEncode
            IN /\ Len(patch) = Len(fs)
               /\ Len(patch) = Cardinality(keySet(fs))
               /\ \A i \in 1..Len(patch) :
                    patch[i] = [op |-> "add", path |-> "/fields/" \o fs[i].key,
                                value |-> fs[i].value]
               /\ \A i, j \in 1..Len(patch) :
                    i # j => patch[i].path # patch[j].path

C9_Witness ==
    /\ Len(sent) >= 1
    /\ sent[1].verb = "updateWorkItem"
    /\ Len(sent[1].patch) = 3
    /\ sent[1].patch[1].path = "/fields/Microsoft.VSTS.Common.Priority"
    /\ sent[1].patch[1].value = NumVal(2)
    /\ sent[1].patch[3].path = "/fields/System.Title"

LastOutcome == outcomes[Len(outcomes)]

\* C10: decoding a response never throws; the AzureResult is successful
\* exactly when the status is 2xx and the body is well-formed JSON with an
\* identifier; a non-2xx status gives a failed result and a malformed body a
\* failed result whose message marks a parse error.
C10_ParseResultNeverThrows ==
    (pc = "done" /\ Len(outcomes) >= 1 /\ LastOutcome.kind = "response") =>
        /\ result.kind = "result"
        /\ result.exception = ""
        /\ result.success <=>
            (LastOutcome.status \in 200..299 /\ LastOutcome.body \in WellFormedWithId)
        /\ LastOutcome.status \notin 200..299 => ~result.success
        /\ LastOutcome.body \in MalformedBodies =>
            (~result.success /\ result.message = "parseError")
        /\ result.success => result.workItemId \in {"123", "7"}
        /\ ~result.success => result.workItemId = ""

C10_Witness ==
    /\ pc = "done"
    /\ Len(outcomes) >= 1
    /\ LastOutcome.kind = "response"
    /\ LastOutcome.status = 200
    /\ LastOutcome.body = B_Truncated
    /\ result.kind = "result"
    /\ result.message = "parseError"


----------------------------------------------------------------------------
(* Properties of the work item creator *)

\* what a verb of the service can end with
ServiceOutcomes ==
    {parseResult(r) : r \in Responses}
        \cup {Thrown(k, s) : k \in ExceptionKinds, s \in {NamedCredential, PAT}}
        \cup {Thrown("ConfigurationError", "")}

IsSuccessPayload(o) == o.kind = "result" /\ o.success /\ o.workItemId # ""

IsStructuredFailure(o) ==
    /\ ~o.success
    /\ o.workItemId = ""
    /\ \/ o.kind = "result" /\ o.exception = ""
       \/ o.kind = "error" /\ o.exception # ""

\* identifiers of the createWorkItem calls that were answered with success
CreatedIds == creator.createdIds

\* C11: every outcome of a service verb is exactly one of a success payload
\* and a structured failure, and the creator stores or hands to its opener
\* only identifiers of createWorkItem calls that were answered with success:
\* after a failed result, a null result or a rejection, lastCreatedWorkItem
\* and the close result hold no identifier of that call.
C11_FailedCreateExposesNoIdentifier ==
    /\ \A o \in ServiceOutcomes : IsSuccessPayload(o) # IsStructuredFailure(o)
    /\ creator.lastCreatedWorkItem.workItemId \in CreatedIds \cup {""}
    /\ creator.closeResult.workItem.workItemId \in CreatedIds \cup {""}
    /\ creator.closeResult.success =>
          creator.closeResult.workItem.workItemId \in CreatedIds
    /\ CreatedIds = {} =>
          /\ creator.lastCreatedWorkItem = NoWorkItem
          /\ ~creator.closeResult.success

\* two creates answered, the last one with a failure that carries an
\* identifier, with the creator still open and nothing stored
C11_Witness ==
    /\ creator.creates = 2
    /\ creator.pending = {}
    /\ creator.lastAnswer = PartialFailure
    /\ creator.lastCreatedWorkItem = NoWorkItem
    /\ ~creator.closeResult.closed

----------------------------------------------------------------------------
(* Properties of the cache under concurrent callers and without a backend *)

C13_FallbackServesFromMemory ==
    [][(~backendAvailable /\ lastGet' # lastGet) =>
        LET k == lastGet'.key
            e == memoryCache[k]
        IN /\ ~lastGet'.threw
           /\ platformCache' = platformCache
           /\ IF e.present /\ now < e.expiry
              THEN /\ ~lastGet'.invoked
                   /\ lastGet'.value = e.value
                   /\ memoryCache' = memoryCache
              ELSE /\ lastGet'.invoked
                   /\ lastGet'.value = ConfigSupplier(source, k)
                   /\ memoryCache' = [memoryCache EXCEPT
                                         ![k] = Entry(lastGet'.value,
                                                      now + lastGet'.ttl)]]_vars

\* a later call within the TTL served from the in-memory Map, after the
\* source has changed
C13_Witness ==
    /\ ~backendAvailable
    /\ lastGet.called /\ ~lastGet.invoked /\ ~lastGet.threw
    /\ memoryCache[lastGet.key].present
    /\ lastGet.at > lastCompute[lastGet.key].at
    /\ lastGet.value # ConfigSupplier(source, lastGet.key)
    /\ \A k \in CacheKeys : ~platformCache[k].present


----------------------------------------------------------------------------
(* Properties of update failures and of the page size of getWorkItems *)

CurrentStore == ActiveStore(backendAvailable, platformCache, memoryCache)

UpdateAnswered404 ==
    /\ pc = "done"
    /\ call.verb = "updateWorkItem"
    /\ outcomes # <<>>
    /\ LastOutcome.kind = "response"
    /\ LastOutcome.status = 404

\* C14 as stated: an updateWorkItem call answered with 404 returns a failed
\* result of class RemoteRejected and the cache holds the same entries after
\* the call as before it.
C14_CacheIdenticalAfter404 ==
    UpdateAnswered404 =>
        /\ result.kind = "result" /\ ~result.success
        /\ classify(result) = "RemoteRejected"
        /\ CurrentStore = call.storeBefore

\* C14, amended: an updateWorkItem call answered with 404 returns a failed
\* result of class RemoteRejected; the call removes no cache entry and
\* changes none except the entry of its own connection, which the
\* configuration lookup at the start of the call stores when the cache had no
\* valid entry for it.
C14_NotFoundRejectedCacheKeepsEntries ==
    UpdateAnswered404 =>
        /\ result.kind = "result" /\ ~result.success
        /\ classify(result) = "RemoteRejected"
        /\ \A k \in CacheKeys :
            LET before == call.storeBefore[k]
                after == CurrentStore[k]
            IN /\ before.present => after.present
               /\ \/ after = before
                  \/ /\ k = CacheKey(call.configName)
                     /\ ~(before.present /\ now < before.expiry)
                     /\ after = Entry(source[call.configName], now + CONFIG_TTL)

\* a 404 with an unreadable body on the first call for a connection: the
\* lookup has stored the connection, an entry of another connection stays
C14_Witness ==
    /\ UpdateAnswered404
    /\ LastOutcome.body = B_Html
    /\ CurrentStore # call.storeBefore
    /\ \E k \in CacheKeys : k # CacheKey(call.configName) /\ call.storeBefore[k].present

----------------------------------------------------------------------------
(* Properties of the priority list and of the permission gate *)

FourLevels ==
    <<[label |-> "1", value |-> "1"], [label |-> "2", value |-> "2"],
      [label |-> "3", value |-> "3"], [label |-> "4", value |-> "4"]>>

\* C16: once the priority load of the creator or of the editor has completed,
\* the list offered is not empty and every entry has a label; after an empty
\* answer, a null or non-array answer, or a failed load it is the four levels
\* 1, 2, 3, 4, and after an answer with records it has one entry per record.
C16_PriorityListNeverEmpty ==
    /\ creator.priorities = "done" =>
        LET answer == creator.prioritiesAnswer
            options == creator.priorityOptions
        IN /\ Len(options) > 0
           /\ \A i \in 1..Len(options) : options[i].label # ""
           /\ IF answer.kind = "array" /\ answer.items # <<>>
              THEN /\ Len(options) = Len(answer.items)
                   /\ \A i \in 1..Len(options) :
                        /\ options[i].label = answer.items[i].label
                        /\ options[i].value = StringOf(answer.items[i].value)
              ELSE options = FourLevels
    /\ editor.emission.kind # "none" =>
        LET options == editor.priorityOptions
        IN /\ Len(options) > 0
           /\ \A i \in 1..Len(options) : options[i].label # ""
           /\ IF editor.emission.kind = "array" /\ editor.emission.items # <<>>
              THEN Len(options) = Len(editor.emission.items)
              ELSE options = FourLevels

\* the creator was answered with an empty array and the editor with an error
C16_Witness ==
    /\ creator.priorities = "done"
    /\ creator.prioritiesAnswer = PriorityData("array", <<>>)
    /\ creator.priorityOptions = FourLevels
    /\ editor.emission.kind = "error"
    /\ editor.priorityOptions = FourLevels

\* C17 as stated, for AzureWorkItemList: deleteWorkItemWithReason is issued
\* only after a permission check of the component has returned true.
C17_WriteOnlyWithPermission ==
    [][wlist'.deletes # wlist.deletes => wlist.permission = "granted"]_vars

\* C17 for the creator: createWorkItem is issued only when the permission
\* check has completed with true.
C17_CreatorWritesOnlyWithPermission ==
    [][creator'.creates # creator.creates =>
        (creator.permission = "done" /\ creator.hasEdit)]_vars


----------------------------------------------------------------------------
(* Properties of UniversalModal *)

\* a text without any character other than white space
Blank(chars) == \A i \in 1..Len(chars) : chars[i] \in WhiteSpace

\* null, undefined, or a text that is empty or white space only
MissingValue(v) ==
    \/ v.type \in {"null", "undefined"}
    \/ v.type = "string" /\ Blank(v.chars)

ClosedConfirmed == modal.closeResult.closed /\ modal.closeResult.confirmed

\* C18: a confirm modal that requires a reason has its confirm button
\* disabled exactly while the reason is empty or white space only (one that
\* requires none never has), it does not close as confirmed with such a
\* reason, and the result of a confirmed close carries the reason as entered.
C18_ReasonRequiredToConfirm ==
    modal.modalType = "confirm" =>
        /\ modal.open =>
              (isConfirmDisabled(modal) <=> (modal.requireReason /\ Blank(modal.reason)))
        /\ (ClosedConfirmed /\ modal.requireReason) =>
              /\ ~Blank(modal.closeResult.reason)
              /\ modal.closeResult.action = "confirm"
        /\ ClosedConfirmed => modal.closeResult.reason = modal.reason

\* confirmed with a reason that has white space around it
C18_Witness ==
    /\ modal.modalType = "confirm"
    /\ modal.requireReason
    /\ ClosedConfirmed
    /\ modal.closeResult.reason = S_PaddedFix

\* the value the form holds for a field, undefined when it holds none
EntryOf(formData, name) ==
    IF \E j \in 1..Len(formData) : formData[j].key = name
    THEN formData[CHOOSE j \in 1..Len(formData) : formData[j].key = name].value
    ELSE UndefinedVal

SomeRequiredMissing(cfg, formData) ==
    \E i \in 1..Len(cfg) :
        cfg[i].required /\ MissingValue(EntryOf(formData, cfg[i].name))

\* C19: a form modal has its confirm button disabled whenever a required
\* field holds null, undefined, an empty text or white space only, and it
\* does not close as confirmed with such a value in a required field.
C19_RequiredFieldsToConfirm ==
    modal.modalType = "form" =>
        /\ (modal.open /\ SomeRequiredMissing(modal.formConfig, modal.formData)) =>
              isConfirmDisabled(modal)
        /\ ClosedConfirmed =>
              /\ modal.closeResult.action = "submit"
              /\ ~SomeRequiredMissing(modal.formConfig, modal.closeResult.formData)

\* submitted after the title was blanked and filled again and the optional
\* description was set to null
C19_Witness ==
    /\ modal.modalType = "form"
    /\ modal.formConfig = WorkItemForm
    /\ ClosedConfirmed
    /\ EntryOf(modal.closeResult.formData, "title") = StrVal(S_Fix)
    /\ EntryOf(modal.closeResult.formData, "description") = NullVal
    /\ EntryOf(modal.closeResult.formData, "priority") = StrVal(S_Fix)

\* C20: the formData of a confirmed form modal has exactly one entry per
\* field of formConfig.fields and no other key; the entry of a field is the
\* value of its last change event, or the field's default when it was never
\* changed.
C20_FormDataOnePerField ==
    (modal.modalType = "form" /\ ClosedConfirmed) =>
        LET cfg == modal.formConfig
            formData == modal.closeResult.formData
        IN /\ Len(formData) = Len(cfg)
           /\ \A i \in 1..Len(cfg) :
                Cardinality({j \in 1..Len(formData) : formData[j].key = cfg[i].name}) = 1
           /\ \A j \in 1..Len(formData) :
                \E i \in 1..Len(cfg) : cfg[i].name = formData[j].key
           /\ \A i \in 1..Len(cfg) :
                EntryOf(formData, cfg[i].name) =
                    IF \E j \in 1..Len(modal.lastChange) :
                          modal.lastChange[j].key = cfg[i].name
                    THEN EntryOf(modal.lastChange, cfg[i].name)
                    ELSE cfg[i].defaultValue

\* submitted with only the title ever changed: the description and the
\* priority hold their defaults
C20_Witness ==
    /\ modal.modalType = "form"
    /\ modal.formConfig = WorkItemForm
    /\ ClosedConfirmed
    /\ Len(modal.lastChange) = 1
    /\ modal.closeResult.formData =
          <<[key |-> "title", value |-> StrVal(S_Fix)],
            [key |-> "description", value |-> StrVal(S_Empty)],
            [key |-> "priority", value |-> StrVal(S_Two)]>>

\* C21: when a row action is clicked in a list-type modal, the modal closes
\* with action = 'rowAction', rowAction equal to the name of the clicked action
\* (a string such as 'edit') and rowData equal to the clicked row.
C21_RowActionIsActionName ==
    (modal.closeResult.closed /\ modal.closeResult.action = "rowAction") =>
        /\ modal.closeResult.confirmed
        /\ modal.closeResult.rowAction = RowActionName(modal.rowEvent.action.name)
        /\ modal.closeResult.rowData = modal.rowEvent.row

\* what handleRowAction does close with: the action object and the row
C21_RowActionIsActionObject ==
    (modal.closeResult.closed /\ modal.closeResult.action = "rowAction") =>
        /\ modal.modalType = "list"
        /\ modal.closeResult.confirmed
        /\ modal.closeResult.rowAction = modal.rowEvent.action
        /\ modal.closeResult.rowAction.type = "object"
        /\ modal.closeResult.rowData = modal.rowEvent.row

\* C22: in the manager, isLoading is true in every state in which a request
\* started by loadInitialData or loadWorkItems is still pending.
C22_LoadingWhilePending ==
    (manager.configsPending \/ manager.pending # {}) => manager.isLoading

\* C23: in the manager, once every getWorkItems request has completed
\* successfully, workItems holds the response of the most recently issued
\* request, whatever the order in which the responses arrived.
C23_LatestRequestWins ==
    (/\ manager.issued > 0
     /\ manager.pending = {}
     /\ manager.failedLoads = 0
     /\ ~manager.filterThrew) =>
        /\ manager.latest.answered
        /\ manager.workItems = mapWorkItems(manager.latest.items)

----------------------------------------------------------------------------
(* Properties of the permission flag, the creator's form and its states *)

RowActionsOffered == {manager.columns[i] : i \in 1..Len(manager.columns)}

\* C24: the permission flag is default-deny in the creator and the manager:
\* hasEdit is false from construction until hasEditPermission resolves with a
\* truthy value and false after it rejects, and in the manager Edit and Delete
\* are among the row actions of columns exactly when hasEdit is true.
C24_PermissionDefaultDeny ==
    /\ creator.hasEdit <=> creator.permissionAnswer = "true"
    /\ manager.hasEdit <=> manager.permission = "true"
    /\ ("edit" \in RowActionsOffered) <=> manager.hasEdit
    /\ ("delete" \in RowActionsOffered) <=> manager.hasEdit

\* the creator's check was rejected, the manager's resolved with true
C24_Witness ==
    /\ creator.permissionAnswer = "rejected"
    /\ ~creator.hasEdit
    /\ manager.permission = "true"
    /\ manager.hasEdit
    /\ RowActionsOffered = {"edit", "delete", "open_azure"}

IsSuccess(res) == res.kind = "result" /\ res.success

\* the step is the return of a createWorkItem call
CreateReturned == \E i \in creator.pending : creator'.pending = creator.pending \ {i}

\* C25: the creator closes with success = true only in the step in which a
\* createWorkItem call returned a result with success = true; when the call
\* returns a failed result or throws, that step produces no close result and
\* leaves isLoading false; createWorkItem is called only with a non-empty
\* configuration, a non-empty type and a non-blank, trimmed title.
C25_CloseOnlyAfterSuccess ==
    [][/\ (creator'.closeResult.success /\ ~creator.closeResult.success) =>
            (CreateReturned /\ IsSuccess(creator'.lastAnswer))
       /\ (CreateReturned /\ ~IsSuccess(creator'.lastAnswer)) =>
            /\ creator'.closeResult = creator.closeResult
            /\ ~creator'.isLoading
       /\ creator'.creates # creator.creates =>
            /\ creator'.lastRequest.configName # ""
            /\ creator'.lastRequest.workItemType # ""
            /\ creator'.lastRequest.title # <<>>
            /\ creator'.lastRequest.title = trim(creator.title)
            /\ \E i \in 1..Len(creator'.lastRequest.title) :
                    creator'.lastRequest.title[i] \notin WhiteSpace]_vars

\* a create sent with the title trimmed was rejected: the creator is open,
\* nothing was closed and isLoading is false
C25_Witness ==
    /\ creator.creates = 1
    /\ creator.title = S_PaddedFix
    /\ creator.lastRequest.title = S_Fix
    /\ creator.pending = {}
    /\ creator.lastAnswer.kind = "error"
    /\ creator.closeResult = NoClose
    /\ ~creator.isLoading

\* C26: after loadStatesForType completed with a state list, the options on
\* offer hold no state whose trimmed, lower-cased value is done, closed or
\* resolved, and the state a createWorkItem call is sent with is none of them.
C26_NoTerminalStateOffered ==
    /\ \A i \in 1..Len(creator.stateOptions) :
            toLowerCase(trim(creator.stateOptions[i].value))
                \notin {S_done, toLowerCase(S_Closed), toLowerCase(S_Resolved)}
    /\ toLowerCase(trim(creator.lastRequest.state))
            \notin {S_done, toLowerCase(S_Closed), toLowerCase(S_Resolved)}

\* C27: once all getAvailableStatesForType requests have completed with a
\* state list, stateOptions are the states of the selected type and
\* selectedState is the value of one of them, or To Do when there is none.
C27_StatesOfSelectedType ==
    (/\ creator.stateLoads > 0
     /\ creator.pendingStates = {}
     /\ creator.stateFailures = 0) =>
        /\ creator.statesAnswer.answered
        /\ creator.stateOptions =
              [i \in 1..Len(creator.statesAnswer.items) |->
                  [value |-> creator.statesAnswer.items[i]]]
        /\ IF creator.stateOptions = <<>> THEN creator.selectedState = S_ToDo
           ELSE \E i \in 1..Len(creator.stateOptions) :
                   creator.stateOptions[i].value = creator.selectedState

----------------------------------------------------------------------------
(* Properties of the deletes *)

\* the step in which the handler of component c receives the answer of the
\* confirmation modal, and the one in which a delete call returns
ModalAnswered(c) == c.confirming # 0 /\ c'.confirming = 0

DeleteAnswered(before, after) ==
    \E d \in before.pendingDeletes : after.pendingDeletes = before.pendingDeletes \ {d}

\* C28: in the manager and in the list, deleteWorkItemWithReason is called
\* only in the step in which the confirmation modal closed with confirmed =
\* true, never after a cancel or a dismissal; the handler reloads the work
\* items only on a delete result with success = true, and a failed or
\* throwing delete leaves workItems unchanged and starts no load.
C28_DeleteOnlyWhenConfirmed ==
    [][/\ manager'.deleteCalls # manager.deleteCalls =>
            /\ manager.dialog.kind = "confirm"
            /\ manager'.modalResult.kind = "result"
            /\ manager'.modalResult.confirmed
       /\ (manager.dialog.kind = "confirm" /\ manager'.dialog = NoDialog
             /\ ~(manager'.modalResult.kind = "result"
                    /\ manager'.modalResult.confirmed)) =>
            manager'.deleteCalls = manager.deleteCalls
       /\ DeleteAnswered(manager, manager') =>
            IF manager'.deleteResult.kind = "result" /\ manager'.deleteResult.success
            THEN manager'.issued = manager.issued + 1
            ELSE /\ manager'.workItems = manager.workItems
                 /\ manager'.issued = manager.issued
       /\ wlist'.deletes # wlist.deletes =>
            /\ wlist.confirming # 0
            /\ wlist'.modalResult.kind = "result"
            /\ wlist'.modalResult.confirmed
       /\ (ModalAnswered(wlist)
             /\ ~(wlist'.modalResult.kind = "result" /\ wlist'.modalResult.confirmed)) =>
            wlist'.deletes = wlist.deletes
       /\ DeleteAnswered(wlist, wlist') =>
            IF wlist'.deleteResult.kind = "result" /\ wlist'.deleteResult.success
            THEN wlist'.loads = wlist.loads + 1
            ELSE /\ wlist'.workItems = wlist.workItems
                 /\ wlist'.loads = wlist.loads]_vars

\* in the manager a confirmed delete was rejected and the rows are still there
C28_Witness ==
    /\ manager.deleteCalls = 1
    /\ manager.modalResult = ConfirmResult(TRUE, S_Empty)
    /\ manager.pendingDeletes = {}
    /\ manager.deleteResult.kind = "error"
    /\ manager.issued = 1
    /\ Len(manager.workItems) = 2

\* in the list a delete was confirmed after an earlier one was dismissed
C28_ListWitness ==
    /\ Len(wlist.deletes) = 1
    /\ wlist.modalResult.confirmed
    /\ wlist.deleteResult.kind = "null"
    /\ Len(wlist.workItems) = 2

----------------------------------------------------------------------------
(* Properties of the manager's filters *)

\* an item passes the filters that are set; letter case does not count in the
\* search
PassesFilters(w) ==
    LET term == toLowerCase(manager.searchTerm)
        assignee == IF w.assignedTo.type = "string" THEN w.assignedTo.chars
                    ELSE S_Empty
    IN /\ term # S_Empty =>
            \/ includes(toLowerCase(w.title), term)
            \/ includes(StringOfValue(NumVal(w.workItemId)), term)
            \/ includes(toLowerCase(assignee), term)
       /\ manager.selectedTypeFilter # "" =>
            w.workItemType = manager.selectedTypeFilter
       /\ manager.selectedStateFilter # "" => w.state = manager.selectedStateFilter

\* a may stand before b in the order asked for; an item without a value in
\* the column may stand anywhere
MayPrecede(a, b) ==
    LET va == lowered(column(a, manager.sortedBy))
        vb == lowered(column(b, manager.sortedBy))
    IN \/ va.type # vb.type
       \/ va.type \notin {"string", "number"}
       \/ IF manager.sortedDirection = "desc" THEN ~lessThan(va, vb)
          ELSE ~lessThan(vb, va)

\* C29: after applyFilters, filteredWorkItems contains exactly the elements of
\* workItems that satisfy every active filter, ordered by sortedBy in
\* sortedDirection, and workItems is what was loaded.
C29_FilteredExactlyAndOrdered ==
    (manager.mounted /\ ~manager.searchTimer) =>
        LET f == manager.filteredWorkItems
            w == manager.workItems
        IN /\ {f[i] : i \in 1..Len(f)} =
                 {w[i] : i \in {j \in 1..Len(w) : PassesFilters(w[j])}}
           /\ \A i, j \in 1..Len(f) : i # j => f[i] # f[j]
           /\ \A i, j \in 1..Len(f) : i < j => MayPrecede(f[i], f[j])
           /\ w = mapWorkItems(manager.latest.items)

\* what holds whenever the comparator did not throw on the last run
C29_FilteredUnlessSortThrew ==
    (manager.mounted /\ ~manager.searchTimer /\ ~manager.filterThrew) =>
        LET f == manager.filteredWorkItems
            w == manager.workItems
        IN /\ {f[i] : i \in 1..Len(f)} =
                 {w[i] : i \in {j \in 1..Len(w) : PassesFilters(w[j])}}
           /\ \A i, j \in 1..Len(f) : i # j => f[i] # f[j]
           /\ \A i, j \in 1..Len(f) : i < j => MayPrecede(f[i], f[j])
           /\ w = mapWorkItems(manager.latest.items)

----------------------------------------------------------------------------
(* Properties of the work item editor *)

\* C30: in the editor hasChanges is false whenever nothing has been edited,
\* that is directly after the modal opens with current values equal to the
\* initial values (a priority passed as a number included) and after any
\* handleReset, and in those states Save is disabled.
C30_NoChangesUntilEdited ==
    (editor.opened /\ editor.untouched) =>
        /\ ~hasChanges(editor)
        /\ isSaveDisabled(editor)

\* what holds after handleReset and after an opening with a text priority
C30_NoChangesWithTextPriority ==
    (/\ editor.opened
     /\ editor.untouched
     /\ editor.priority.type = editor.initialPriority.type) =>
        /\ ~hasChanges(editor)
        /\ isSaveDisabled(editor)

=============================================================================
